---- MODULE Spec2Model ----
(***************************************************************************)
(* Admission control of the gemma-3-api service: the in-process token      *)
(* bucket rate limiter (app/security/rate_limiter.py) and the two guards   *)
(* that put it in front of HTTP requests and WebSocket connections.        *)
(*                                                                         *)
(* Numbers.  The code computes with floats.  The model computes with exact *)
(* rationals over a common denominator: time is counted in whole seconds,  *)
(* the burst multiplier is burst_num / burst_den, and a bucket's tokens    *)
(* are an integer number of units, limiter.one units making one token      *)
(* (one = burst_den * window), so that capacity, the refill of one second  *)
(* and the decrement of one token are all whole numbers of units.          *)
(*                                                                         *)
(* Scheduling.  A caller can be suspended only where the code awaits: at   *)
(* `async with self._lock` (rate_limiter.py:50), after it has read the     *)
(* clock (line 47).  Spec and SpecGuard take the exclusive section (lines  *)
(* 50-76) in one step, since nothing inside it awaits.  SpecLock takes it  *)
(* in two steps, both while holding the lock, so that the lock (and not    *)
(* the atomicity of a step) is what serializes callers.                    *)
(***************************************************************************)
EXTENDS Integers, Sequences, FiniteSets, Bags, TLC

\* ------------------------------------------------------------------ bounds
MaxTime == 6
MaxCalls == 3
MaxGuardTime == 2
NumTasks == 2
MaxOffset == 2
MaxTwinCalls == 3
MaxDialogues == 2
MaxChunks == 2
MaxPasses == 2
MaxTextLen == 2
MaxSockets == 3
MaxLedgerCalls == 4
NumInvocations == 2

\* ------------------------------------------------------- program constants
BucketTtlWindows == 5
HTTP_429_TOO_MANY_REQUESTS == 429
WS_RATE_LIMIT_CLOSE_CODE == 4429

\* ------------------------------------------------------------------ inputs
None == "None"
NoHeader == "<absent>"
NoHost == "<no client>"
Scopes == {"api_key", "ip"}
\* the (identifier, scope) pairs of direct calls: one identifier text under
\* both scopes, and two identifiers under one scope
AcquireInputs == {<<"k1", "api_key">>, <<"k1", "ip">>, <<"k2", "api_key">>}
Headers == {NoHeader, "k1"}
\* the pairs of direct calls where the exclusive section is taken in two steps
LockInputs == {<<"k1", "api_key">>, <<"k2", "api_key">>}
Hosts == {NoHost, "k1"}

Max(a, b) == IF a >= b THEN a ELSE b
Min(a, b) == IF a <= b THEN a ELSE b

VARIABLES
    limiter,     \* app.state.rate_limiter: the constructed RateLimiter, if any
    clock,       \* time.monotonic(), in seconds
    lock,        \* RateLimiter._lock.locked()
    buckets,     \* RateLimiter._buckets: bucket key -> _TokenBucket
    waiting,     \* the callers suspended at `async with self._lock`, a bag
    inside,      \* the callers inside the exclusive section, a bag
    rejections,  \* app_rate_limit_rejections_total, per scope label
    calls,       \* number of calls started (bounds the run)
    last,        \* the call that returned last, and what it returned
    serial,      \* the bucket map of the sequential reference execution
    burst,       \* per key: the calls since the bucket's creation, while
                 \* all of them carried the creation's timestamp
    owner,       \* per key: the <<identifier, scope>> of the call that
                 \* created the bucket
    twin,        \* two runs of one limiter over one sequence of calls, the
                 \* second started later on the clock
    derived,     \* one header value and client host, and the pair each
                 \* identifier helper derived from them
    dialogue,    \* the run_dialogue invocation: where it is, its arguments,
                 \* its locals and what the backends handed back to it
    backendCalls,   \* the adapter entry points it has invoked, in order
    observations,   \* what it and the adapters have recorded in the
                    \* metrics layer, in order
    outcome,     \* what it returned, or the error it raised
    stream,      \* the OpenAudioSynthesisStream it returned, and what
                 \* the current pass over it has requested, delivered
                 \* and waited
    prepared,    \* one set of synthesis overrides and the keyword
                 \* arguments _prepare_synthesis_kwargs made of them
    prompted,    \* one transcript and instruction and the prompt
                 \* _build_prompt made of them
    invocations, \* run_dialogue invocations in flight on one service:
                 \* their frames, what the backends handed to each of
                 \* them, and what each of them returned or raised
    auth,        \* one API-key configuration and header value, and what
                 \* each transport's check made of them
    delivery,    \* the /dialogue endpoint's response to one request
    socket,      \* one WebSocket connection on its way through an
                 \* endpoint's admission checks
    ledger       \* one caller at a time on the limiter: the same calls
                 \* on a bucket map that is never swept, what each key
                 \* was told last, and when each key was admitted

\* the state of the limiter and its callers
limiterVars == <<clock, lock, buckets, waiting, inside, rejections, calls,
                 last, serial, burst, owner>>

\* the state outside the limiter and its callers
dialogueVars == <<dialogue, backendCalls, observations, outcome, stream>>

edgeVars == <<auth, delivery, socket, ledger>>

sideVars == <<prepared, prompted, invocations, edgeVars>>

others == <<twin, derived, dialogueVars, sideVars>>

vars == <<limiter, limiterVars, others>>

\* --------------------------------------------------------------- settings
\* the fields of Settings the limiter reads; the burst multiplier is a pair
\* <<numerator, denominator>>
Settings(enabled, requests, multiplier, window) ==
    [rate_limit_enabled |-> enabled,
     rate_limit_requests |-> requests,
     rate_limit_burst_multiplier |-> multiplier,
     rate_limit_window_seconds |-> window,
     api_key_header_name |-> "X-API-Key"]

\* the configurations explored: capacity 1 (0.5 raised to the floor of 1)
\* over a window of 2 s, capacity 2 over a window of 1 s (a TTL of 5 s),
\* capacity 1.5 over a window of 2 s, and a disabled limiter
SettingsInputs ==
    {Settings(TRUE, 1, <<1, 2>>, 2),
     Settings(TRUE, 2, <<1, 1>>, 1),
     Settings(TRUE, 1, <<3, 2>>, 2),
     Settings(FALSE, 1, <<1, 1>>, 1)}

\* RateLimiter.__init__.  capacity = max(1.0, requests * burst), kept as
\* cap_num / den tokens; refill_rate = capacity / window, which is cap_num
\* units a second; ttl = window * 5.  Settings declares the window a
\* PositiveFloat (settings.py:64), so `else float("inf")` is never taken.
RateLimiterInit(settings) ==
    LET num == settings.rate_limit_burst_multiplier[1]
        den == settings.rate_limit_burst_multiplier[2]
        window == settings.rate_limit_window_seconds
        cap_num == Max(den, settings.rate_limit_requests * num)
    IN  [configured |-> TRUE,
         enabled |-> settings.rate_limit_enabled,
         api_key_header |-> settings.api_key_header_name,
         den |-> den,
         cap_num |-> cap_num,
         window |-> window,
         one |-> den * window,
         capacity |-> cap_num * window,
         refill_rate |-> cap_num,
         bucket_ttl |-> window * BucketTtlWindows]

\* app.state carries no rate_limiter (get_rate_limiter_from_request gives None)
NoLimiter ==
    [configured |-> FALSE, enabled |-> FALSE, api_key_header |-> "", den |-> 1,
     cap_num |-> 1, window |-> 1, one |-> 1, capacity |-> 1, refill_rate |-> 1,
     bucket_ttl |-> 1]

\* floor(capacity), in tokens
FloorCapacity == limiter.cap_num \div limiter.den

\* ---------------------------------------------------------------- buckets
NoBucket == [tokens |-> -1, last_refill |-> -1]
TokenBucket(tokens, last_refill) == [tokens |-> tokens, last_refill |-> last_refill]

\* mutants: a key that leaves the scope out, a key that leaves the
\* identifier out
BucketKeyNoScope(scope, identifier) == identifier
BucketKeyNoIdentifier(scope, identifier) == scope

\* bucket_key = f"{scope}:{identifier}"
BucketKey(scope, identifier) == scope \o ":" \o identifier

\* self._buckets.get(bucket_key)
BucketsGet(map, key) == IF key \in DOMAIN map THEN map[key] ELSE NoBucket

\* self._buckets[bucket_key] = bucket
BucketsPut(map, key, bucket) ==
    [k \in DOMAIN map \cup {key} |-> IF k = key THEN bucket ELSE map[k]]

\* mutant: a refill by the time on the clock, not by the time since the
\* last refill
RefilledBucketAbsolute(bucket, now) ==
    IF bucket = NoBucket
    THEN TokenBucket(limiter.capacity, now)
    ELSE TokenBucket(Min(limiter.capacity,
                         bucket.tokens + now * limiter.refill_rate), now)

\* mutant: a refill that is not capped at the capacity
RefilledBucketUncapped(bucket, now) ==
    IF bucket = NoBucket
    THEN TokenBucket(limiter.capacity, now)
    ELSE LET elapsed == Max(0, now - bucket.last_refill)
         IN  TokenBucket(bucket.tokens + elapsed * limiter.refill_rate, now)

\* mutant: a new bucket starts empty
RefilledBucketStartsEmpty(bucket, now) ==
    IF bucket = NoBucket
    THEN TokenBucket(0, now)
    ELSE LET elapsed == Max(0, now - bucket.last_refill)
         IN  TokenBucket(Min(limiter.capacity,
                             bucket.tokens + elapsed * limiter.refill_rate),
                         now)

\* lines 51-59: the bucket after lookup-or-create and refill
RefilledBucket(bucket, now) ==
    IF bucket = NoBucket
    THEN TokenBucket(limiter.capacity, now)
    ELSE LET elapsed == Max(0, now - bucket.last_refill)
         IN  TokenBucket(Min(limiter.capacity,
                             bucket.tokens + elapsed * limiter.refill_rate),
                         now)

\* mutant: any positive remainder admits
AllowedAnyTokens(bucket) == bucket.tokens > 0

\* line 61: allowed = bucket.tokens >= 1.0
Allowed(bucket) == bucket.tokens >= limiter.one

\* mutant: a token is taken from a rejected caller too
SpentBucketAlways(bucket) ==
    TokenBucket(Max(0, bucket.tokens - limiter.one), bucket.last_refill)

\* lines 62-63: the bucket as stored
SpentBucket(bucket) ==
    IF Allowed(bucket)
    THEN TokenBucket(bucket.tokens - limiter.one, bucket.last_refill)
    ELSE bucket

\* mutant: a bucket is dropped from the age of the TTL on
ExpiredKeysAtTtl(map, now) ==
    {key \in DOMAIN map : (now - map[key].last_refill) >= limiter.bucket_ttl}

\* mutant: a bucket is dropped as soon as it is older than the call
ExpiredKeysAnyAge(map, now) ==
    {key \in DOMAIN map : (now - map[key].last_refill) > 0}

\* _cleanup_locked: drop the buckets older than the TTL
ExpiredKeys(map, now) ==
    {key \in DOMAIN map : (now - map[key].last_refill) > limiter.bucket_ttl}

CleanupLocked(map, now) ==
    IF limiter.bucket_ttl <= 0
    THEN map
    ELSE [key \in DOMAIN map \ ExpiredKeys(map, now) |-> map[key]]

\* a float of seconds as numerator / denominator
Zero == [num |-> 0, den |-> 1]

\* mutant: the time to refill to capacity, not to one token
RetryAfterFromCapacity(allowed, bucket) ==
    IF allowed
    THEN Zero
    ELSE [num |-> Max(0, limiter.capacity - bucket.tokens),
          den |-> limiter.refill_rate]

\* mutant: the hint divides by the capacity, not by the refill rate
RetryAfterPerWindow(allowed, bucket) ==
    IF allowed
    THEN Zero
    ELSE [num |-> Max(0, limiter.one - bucket.tokens),
          den |-> limiter.capacity]

\* lines 68-73: retry_after, from the bucket as stored
RetryAfter(allowed, bucket) ==
    IF allowed
    THEN Zero
    ELSE IF limiter.refill_rate > 0
         THEN [num |-> Max(0, limiter.one - bucket.tokens),
               den |-> limiter.refill_rate]
         ELSE Zero

\* lines 51-73 as one sequential operation on a bucket map: the reference
\* that the stepwise execution under the lock is compared with
SeqAcquire(map, key, now) ==
    LET refilled == RefilledBucket(BucketsGet(map, key), now)
        allowed == Allowed(refilled)
        stored == SpentBucket(refilled)
    IN  [buckets |-> CleanupLocked(BucketsPut(map, key, stored), now),
         allowed |-> allowed,
         retry_after |-> RetryAfter(allowed, stored)]

\* ------------------------------------------------- identifier derivation
\* _extract_header: the header's value, or None
ExtractHeader(header) ==
    IF limiter.api_key_header = "" THEN None
    ELSE IF header = NoHeader THEN None ELSE header

\* identifier_from_request
IdentifierFromRequest(header, host) ==
    LET header_value == ExtractHeader(header)
    IN  IF header_value # None /\ header_value # ""
        THEN <<header_value, "api_key">>
        ELSE LET client_host == IF host = NoHost THEN "anonymous" ELSE host
             IN  <<IF client_host = "" THEN "anonymous" ELSE client_host, "ip">>

\* mutant: the client host first, the header after it
IdentifierFromWebsocketHostFirst(header, host) ==
    IF host # NoHost /\ host # ""
    THEN <<host, "ip">>
    ELSE IF header # NoHeader /\ header # ""
         THEN <<header, "api_key">>
         ELSE <<"anonymous", "ip">>

\* identifier_from_websocket
IdentifierFromWebsocket(header, host) ==
    LET header_value == ExtractHeader(header)
    IN  IF header_value # None /\ header_value # ""
        THEN <<header_value, "api_key">>
        ELSE LET client_host == IF host = NoHost THEN "anonymous" ELSE host
             IN  <<IF client_host = "" THEN "anonymous" ELSE client_host, "ip">>

\* ---------------------------------------------------------------- callers
\* a caller's local variables after lines 47-48 of acquire
Call(kind, identifier, scope, now) ==
    [kind |-> kind, identifier |-> identifier, scope |-> scope, now |-> now,
     bucket_key |-> BucketKey(scope, identifier)]

NoCall == [kind |-> "none", identifier |-> "", scope |-> "", now |-> 0,
           bucket_key |-> ""]

\* acquire.called: whether acquire ran and returned (allowed, retry_after);
\* status_code: the status of the HTTPException raised, 0 for none; returned:
\* the guard's return value; closes: the codes the socket was closed with
NoResp == [acquire |-> [called |-> FALSE, allowed |-> TRUE, retry_after |-> Zero],
           returned |-> "None", status_code |-> 0, retry_after_header |-> 0,
           closes |-> <<>>]

\* mutants: the retry hint rounded down; a rejected socket left open
CeilAsFloor(r) == r.num \div r.den
FinishWsNoClose(kind, allowed, retry_after) ==
    LET acq == [called |-> TRUE, allowed |-> allowed, retry_after |-> retry_after]
    IN  IF kind = "ws" /\ ~allowed
        THEN [returned |-> "False", acquire |-> acq, status_code |-> 0,
              retry_after_header |-> 0, closes |-> <<>>]
        ELSE [returned |-> IF kind = "ws" THEN "True" ELSE "None",
              acquire |-> acq, status_code |-> 0, retry_after_header |-> 0,
              closes |-> <<>>]

Ceil(r) == (r.num + r.den - 1) \div r.den

\* what the caller of acquire does with (allowed, retry_after):
\* a direct caller gets the tuple, enforce_rate_limit (lines 134-142) returns
\* or raises 429, enforce_websocket_rate_limit (lines 161-165) returns True
\* or closes the socket and returns False
Finish(kind, allowed, retry_after) ==
    LET acq == [called |-> TRUE, allowed |-> allowed, retry_after |-> retry_after]
    IN  CASE kind = "acquire" ->
               [NoResp EXCEPT !.acquire = acq, !.returned = "tuple"]
          [] kind = "http" ->
               IF allowed
               THEN [NoResp EXCEPT !.acquire = acq]
               ELSE [NoResp EXCEPT !.acquire = acq,
                        !.status_code = HTTP_429_TOO_MANY_REQUESTS,
                        !.retry_after_header =
                            IF retry_after.num > 0 THEN Ceil(retry_after) ELSE 1]
          [] kind = "ws" ->
               IF allowed
               THEN [NoResp EXCEPT !.acquire = acq, !.returned = "True"]
               ELSE [NoResp EXCEPT !.acquire = acq, !.returned = "False",
                        !.closes = <<WS_RATE_LIMIT_CLOSE_CODE>>]

\* the guards' early return when no limiter is configured or it is disabled
\* (lines 129-130 and 156-157): acquire is not called
Bypass(kind) ==
    IF kind = "ws" THEN [NoResp EXCEPT !.returned = "True"] ELSE NoResp

\* ------------------------------------------------------------------ state
EmptyMap == [k \in {} |-> NoBucket]

NoExpected == [allowed |-> TRUE, retry_after |-> Zero]

\* entered: the call went through the exclusive section; before: its bucket
\* as found (line 51); stored: the map after line 64; expected: the decision
\* of the sequential reference execution
NoLast == [call |-> NoCall, entered |-> FALSE, before |-> NoBucket,
           stored |-> EmptyMap, expected |-> NoExpected, resp |-> NoResp]

\* run_dialogue has not been invoked
NoError == "None"
NoOverride == [type |-> "absent", numeric |-> FALSE, value |-> 0]
NoRequest == [stream_audio |-> FALSE, max_tokens |-> NoOverride,
              prompt |-> NoOverride]
NoValue == "None"
NoOutcome == [returned |-> "None", raised |-> NoError, stage |-> "none",
              behaviour |-> "none", parts |-> {},
              transcription |-> NoValue, response_text |-> NoValue,
              synthesis |-> NoValue]
NoLocals == [pc |-> "idle", n |-> 0, request |-> NoRequest,
             generation_params |-> {}, transcription |-> NoValue,
             response_text |-> NoValue, synthesized |-> NoValue,
             backend |-> [transcription |-> NoValue,
                          response_text |-> NoValue, synthesis |-> NoValue]]

\* no OpenAudioSynthesisStream exists
NoStream == [status |-> "none", text |-> NoValue, retries |-> 0, pass |-> 0,
             attempt |-> 0, yielded |-> 0, requests |-> 0,
             delivered |-> 0, waits |-> <<>>, raised |-> NoError]
NoDialogue ==
    /\ dialogue = NoLocals
    /\ backendCalls = <<>>
    /\ observations = <<>>
    /\ outcome = NoOutcome
    /\ stream = NoStream

\* nothing prepared, nothing prompted, no concurrent invocations
NoKwargs == [key \in {} |-> NoValue]
NoPrepared == [overrides |-> NoKwargs, reply |-> NoValue, done |-> FALSE,
               filtered |-> NoKwargs, passed |-> NoKwargs, raised |-> NoError]
NoInstructions == [given |-> FALSE, text |-> <<>>]
NoPrompted == [transcription_text |-> <<>>, instructions |-> NoInstructions,
               done |-> FALSE, prompt |-> <<>>]
NoFrame == [pc |-> "idle", stream_audio |-> FALSE, transcription |-> NoValue,
            response_text |-> NoValue]
NoHanded == [started |-> FALSE, transcription |-> NoValue,
             response_text |-> NoValue, synthesis |-> NoValue,
             error |-> NoError]
NoResult == [returned |-> "None", raised |-> NoError,
             transcription |-> NoValue, response_text |-> NoValue,
             synthesis |-> NoValue]
NoInvocations == [frames |-> [i \in 1..NumInvocations |-> NoFrame],
                  handed |-> [i \in 1..NumInvocations |-> NoHanded],
                  results |-> [i \in 1..NumInvocations |-> NoResult]]
\* no API-key check made, nothing delivered, no connection
NoChecked == [done |-> FALSE, passed |-> FALSE, code |-> 0, closed |-> FALSE]
NoAuth == [enabled |-> FALSE, header_name |-> "", keys |-> {},
           header |-> NoHeader, http |-> NoChecked, ws |-> NoChecked]
NoDelivery == [n |-> 0, status |-> 0, detail |-> "", body |-> {},
               events |-> <<>>]
\* no connection has been made: pc is the handler's position, key the
\* result of the key check, ticket the limiter's call count at connect,
\* closes the codes the socket was closed with
NoSocket == [pc |-> "idle", n |-> 0, endpoint |-> "", header |-> NoHeader,
             host |-> NoHost, key |-> NoChecked, ticket |-> 0,
             closes |-> <<>>, accepted |-> FALSE]
\* what a key's call was told: nothing yet
NoTold == [called |-> FALSE, at |-> 0, result |-> NoExpected]
\* no call has been made: plain is the bucket map of the same limiter with
\* the sweep switched off, result and plain_result what the last call
\* returned on each, before the bucket the last call found, told what each
\* key's last call returned and when, prior what the key of the last call
\* had been told before it, admitted the times each key was
\* admitted at
NoLedger == [plain |-> EmptyMap, key |-> "", result |-> NoExpected,
             plain_result |-> NoExpected, before |-> NoBucket,
             told |-> [k \in {} |-> NoTold], prior |-> NoTold,
             admitted |-> [k \in {} |-> <<>>]]
NoEdge ==
    /\ auth = NoAuth
    /\ delivery = NoDelivery
    /\ socket = NoSocket
    /\ ledger = NoLedger

NoSide ==
    /\ prepared = NoPrepared
    /\ prompted = NoPrompted
    /\ invocations = NoInvocations
    /\ NoEdge

\* no twin runs
NoTwin == [offset |-> 0, now |-> 0, n |-> 0, a |-> EmptyMap, b |-> EmptyMap,
           ra |-> NoExpected, rb |-> NoExpected]

\* nothing to derive an identifier from
NoPair == <<"", "">>
NoDerived == [header |-> NoHeader, host |-> NoHost,
              request |-> NoPair, websocket |-> NoPair]

Init ==
    /\ limiter \in {NoLimiter} \cup {RateLimiterInit(s) : s \in SettingsInputs}
    /\ clock = 0
    /\ lock = FALSE
    /\ buckets = EmptyMap
    /\ waiting = EmptyBag
    /\ inside = EmptyBag
    /\ rejections = [s \in Scopes |-> 0]
    /\ calls = 0
    /\ last = NoLast
    /\ serial = EmptyMap
    /\ burst = [k \in {} |-> [at |-> 0, admits |-> 0, rejects |-> 0]]
    /\ owner = [k \in {} |-> <<"", "">>]
    /\ twin = NoTwin
    /\ derived = NoDerived
    /\ NoDialogue
    /\ NoSide

\* the number of calls in flight
InFlight == BagCardinality(waiting) + BagCardinality(inside)

\* a call may start
MayStart == calls < MaxCalls /\ InFlight < NumTasks

\* mutants: a disabled limiter still counts; a missing limiter is not
\* looked for; the lock is not taken
FailOpenCapacityOnly == limiter.capacity <= 0
WsBypassNoNoneCheck == limiter.configured /\ ~limiter.enabled
LockIgnored == TRUE

\* the exclusive section may be entered (line 50)
LockFree == ~lock

\* acquire, line 44
FailOpen == ~limiter.enabled \/ limiter.capacity <= 0

\* enforce_rate_limit, line 129
HttpBypass == ~limiter.configured \/ ~limiter.enabled

\* enforce_websocket_rate_limit, lines 151-156
WsBypass == ~limiter.configured \/ ~limiter.enabled

\* a call that returns without entering the exclusive section
ReturnEarly(call, resp) ==
    /\ last' = [NoLast EXCEPT !.call = call, !.resp = resp]
    /\ UNCHANGED waiting

\* acquire, lines 44-48: the fail-open return, or the timestamp and the key;
\* the caller then waits for the lock
AcquireBegin(kind, identifier, scope) ==
    LET call == Call(kind, identifier, scope, clock)
    IN  IF FailOpen
        THEN ReturnEarly(call, Finish(kind, TRUE, Zero))
        ELSE /\ waiting' = waiting (+) SetToBag({call})
             /\ UNCHANGED last

\* a direct call of RateLimiter.acquire(identifier, scope)
CallAcquire(identifier, scope) ==
    /\ MayStart
    /\ limiter.configured
    /\ calls' = calls + 1
    /\ AcquireBegin("acquire", identifier, scope)
    /\ UNCHANGED <<limiter, clock, lock, buckets, inside, rejections, serial,
                   burst, owner>>
    /\ UNCHANGED others

\* enforce_rate_limit, up to the lock
HttpRequest(header, host) ==
    /\ MayStart
    /\ calls' = calls + 1
    /\ LET id == IdentifierFromRequest(header, host)
       IN  IF HttpBypass
           THEN ReturnEarly(Call("http", id[1], id[2], clock), Bypass("http"))
           ELSE AcquireBegin("http", id[1], id[2])
    /\ UNCHANGED <<limiter, clock, lock, buckets, inside, rejections, serial,
                   burst, owner>>
    /\ UNCHANGED others

\* enforce_websocket_rate_limit, up to the lock
WsConnect(header, host) ==
    /\ MayStart
    /\ calls' = calls + 1
    /\ LET id == IdentifierFromWebsocket(header, host)
       IN  IF WsBypass
           THEN ReturnEarly(Call("ws", id[1], id[2], clock), Bypass("ws"))
           ELSE AcquireBegin("ws", id[1], id[2])
    /\ UNCHANGED <<limiter, clock, lock, buckets, inside, rejections, serial,
                   burst, owner>>
    /\ UNCHANGED others

\* the calls on a key since its bucket was created, all at one timestamp
BurstAfter(key, now, created, allowed, map) ==
    LET one == [at |-> now,
                admits |-> IF allowed THEN 1 ELSE 0,
                rejects |-> IF allowed THEN 0 ELSE 1]
        more == IF key \in DOMAIN burst /\ burst[key].at = now /\ ~created
                THEN [at |-> now,
                      admits |-> burst[key].admits + (IF allowed THEN 1 ELSE 0),
                      rejects |-> burst[key].rejects + (IF allowed THEN 0 ELSE 1)]
                ELSE one
        keep == IF created \/ (key \in DOMAIN burst /\ burst[key].at = now)
                THEN DOMAIN burst \cup {key}
                ELSE DOMAIN burst \ {key}
    IN  [k \in keep \cap DOMAIN map |-> IF k = key THEN more ELSE burst[k]]

\* who created each bucket of the map
OwnerAfter(call, created, map) ==
    [k \in DOMAIN map |->
        IF k = call.bucket_key /\ (created \/ k \notin DOMAIN owner)
        THEN <<call.identifier, call.scope>>
        ELSE owner[k]]

\* acquire, lines 64-76, and the guard's lines after it: store, sweep, leave
\* the lock, count a rejection, answer the caller
Conclude(call, before, allowed, bucket, expected) ==
    LET key == call.bucket_key
        stored == BucketsPut(buckets, key, bucket)
        retry_after == RetryAfter(allowed, stored[key])
    IN  /\ buckets' = CleanupLocked(stored, call.now)
        /\ rejections' = IF allowed THEN rejections
                          ELSE [rejections EXCEPT ![call.scope] = @ + 1]
        /\ last' = [call |-> call, entered |-> TRUE, before |-> before,
                    stored |-> stored, expected |-> expected,
                    resp |-> Finish(call.kind, allowed, retry_after)]
        /\ burst' = BurstAfter(key, call.now, before = NoBucket, allowed,
                               CleanupLocked(stored, call.now))
        /\ owner' = OwnerAfter(call, before = NoBucket,
                               CleanupLocked(stored, call.now))
        /\ lock' = FALSE

\* acquire, lines 50-76, in one step: nothing in the exclusive section
\* awaits, so a caller that enters it leaves it before any other task runs
ExclusiveSection(call) ==
    /\ BagIn(call, waiting)
    /\ LockFree
    /\ waiting' = waiting (-) SetToBag({call})
    /\ LET before == BucketsGet(buckets, call.bucket_key)
           refilled == RefilledBucket(before, call.now)
           allowed == Allowed(refilled)
           stored == SpentBucket(refilled)
       IN  Conclude(call, before, allowed, stored,
                    [allowed |-> allowed,
                     retry_after |-> RetryAfter(allowed, stored)])
    /\ serial' = buckets'
    /\ UNCHANGED <<limiter, clock, inside, calls>>
    /\ UNCHANGED others

\* acquire, lines 50-59: take the lock, look the bucket up or create it, and
\* refill it.  An existing bucket is refilled in place, in the map; a new one
\* is not in the map before line 64.
EnterLock(call) ==
    /\ BagIn(call, waiting)
    /\ LockFree
    /\ waiting' = waiting (-) SetToBag({call})
    /\ LET key == call.bucket_key
           before == BucketsGet(buckets, key)
           refilled == RefilledBucket(before, call.now)
           ref == SeqAcquire(serial, key, call.now)
       IN  /\ buckets' = IF before = NoBucket THEN buckets
                         ELSE BucketsPut(buckets, key, refilled)
           /\ inside' = inside (+) SetToBag({[call |-> call,
                  before |-> before, bucket |-> refilled,
                  expected |-> [allowed |-> ref.allowed,
                                retry_after |-> ref.retry_after]]})
           /\ serial' = ref.buckets
    /\ lock' = TRUE
    /\ UNCHANGED <<limiter, clock, rejections, calls, last, burst, owner>>
    /\ UNCHANGED others

\* acquire, lines 61-76: decide, spend, and conclude
Spend(in) ==
    /\ BagIn(in, inside)
    /\ inside' = inside (-) SetToBag({in})
    /\ Conclude(in.call, in.before, Allowed(in.bucket), SpentBucket(in.bucket),
                in.expected)
    /\ UNCHANGED <<limiter, clock, waiting, calls, serial>>
    /\ UNCHANGED others

\* time passes
Tick ==
    /\ clock < MaxTime
    /\ clock' = clock + 1
    /\ UNCHANGED <<limiter, lock, buckets, waiting, inside, rejections, calls,
                   last, serial, burst, owner>>
    /\ UNCHANGED others

\* time passes while no caller is inside the exclusive section, which reads
\* no clock and awaits nothing (lines 51-73)
TickOutside ==
    /\ inside = EmptyBag
    /\ Tick

\* time passes in front of the guards
TickGuard ==
    /\ clock < MaxGuardTime
    /\ Tick

\* the limiter called directly
Next ==
    \/ \E input \in AcquireInputs : CallAcquire(input[1], input[2])
    \/ \E call \in BagToSet(waiting) : ExclusiveSection(call)
    \/ Tick

Spec == Init /\ [][Next]_vars

\* the limiter behind the two transport guards
NextGuard ==
    \/ \E header \in Headers, host \in Hosts : HttpRequest(header, host)
    \/ \E header \in Headers, host \in Hosts : WsConnect(header, host)
    \/ \E call \in BagToSet(waiting) : ExclusiveSection(call)
    \/ TickGuard

SpecGuard == Init /\ [][NextGuard]_vars

\* the exclusive section in two steps, serialized by the lock alone
NextLock ==
    \/ \E input \in LockInputs : CallAcquire(input[1], input[2])
    \/ \E call \in BagToSet(waiting) : EnterLock(call)
    \/ \E in \in BagToSet(inside) : Spend(in)
    \/ TickOutside

SpecLock == Init /\ [][NextLock]_vars

\* a limiter that no caller has called
NoCalls ==
    /\ clock = 0
    /\ lock = FALSE
    /\ buckets = EmptyMap
    /\ waiting = EmptyBag
    /\ inside = EmptyBag
    /\ rejections = [s \in Scopes |-> 0]
    /\ calls = 0
    /\ last = NoLast
    /\ serial = EmptyMap
    /\ burst = [k \in {} |-> [at |-> 0, admits |-> 0, rejects |-> 0]]
    /\ owner = [k \in {} |-> <<"", "">>]

\* ------------------------------------------------------------- twin runs
\* two runs of one enabled limiter start from the empty map; the clock of
\* the second run is ahead of the first's by twin.offset seconds
InitTwin ==
    /\ limiter \in {RateLimiterInit(s) : s \in {c \in SettingsInputs : c.rate_limit_enabled}}
    /\ NoCalls
    /\ twin \in {[NoTwin EXCEPT !.offset = d] : d \in 0..MaxOffset}
    /\ derived = NoDerived
    /\ NoDialogue
    /\ NoSide

\* both runs take the same call through the exclusive section (lines
\* 51-73), elapsed seconds after their previous call
TwinAcquire(identifier, scope, elapsed) ==
    /\ twin.n < MaxTwinCalls
    /\ twin.now + elapsed <= MaxTime
    /\ LET key == BucketKey(scope, identifier)
           now == twin.now + elapsed
           a == SeqAcquire(twin.a, key, now)
           b == SeqAcquire(twin.b, key, now + twin.offset)
       IN  twin' = [offset |-> twin.offset, now |-> now, n |-> twin.n + 1,
                    a |-> a.buckets, b |-> b.buckets,
                    ra |-> [allowed |-> a.allowed, retry_after |-> a.retry_after],
                    rb |-> [allowed |-> b.allowed, retry_after |-> b.retry_after]]
    /\ UNCHANGED <<limiter, limiterVars, derived, dialogueVars, sideVars>>

NextTwin ==
    \E input \in AcquireInputs, elapsed \in 0..MaxTime :
        TwinAcquire(input[1], input[2], elapsed)

SpecTwin == InitTwin /\ [][NextTwin]_vars

\* ------------------------------------------------ the identifier helpers
\* the header values and client hosts a connection may carry: none, the
\* empty string, and texts, one of them both a key and a host
DeriveHeaders == {NoHeader, "", "k1", "k2"}
DeriveHosts == {NoHost, "", "k1", "10.0.0.7"}

\* the header names a limiter may be configured with (settings.py:44)
HeaderNames == {"X-API-Key", ""}

\* a limiter, and one connection's header value and client host
InitIdentify ==
    /\ limiter \in {RateLimiterInit([Settings(TRUE, 1, <<1, 1>>, 1)
                        EXCEPT !.api_key_header_name = name]) :
                     name \in HeaderNames}
    /\ NoCalls
    /\ twin = NoTwin
    /\ NoDialogue
    /\ NoSide
    /\ derived \in {[NoDerived EXCEPT !.header = header, !.host = host] :
                      header \in DeriveHeaders, host \in DeriveHosts}

\* identifier_from_request on the connection
DeriveFromRequest ==
    /\ derived.request = NoPair
    /\ derived' = [derived EXCEPT
                      !.request = IdentifierFromRequest(derived.header, derived.host)]
    /\ UNCHANGED <<limiter, limiterVars, twin, dialogueVars, sideVars>>

\* identifier_from_websocket on the connection
DeriveFromWebsocket ==
    /\ derived.websocket = NoPair
    /\ derived' = [derived EXCEPT
                      !.websocket = IdentifierFromWebsocket(derived.header, derived.host)]
    /\ UNCHANGED <<limiter, limiterVars, twin, dialogueVars, sideVars>>

NextIdentify ==
    \/ DeriveFromRequest
    \/ DeriveFromWebsocket

SpecIdentify == InitIdentify /\ [][NextIdentify]_vars

\* --------------------------------------------------- the dialogue pipeline
\* record_external_call(service, ..., success) and
\* record_pipeline(pipeline, ..., success), as observations
ExternalCall(service, success) ==
    [metric |-> "external_call", label |-> service, success |-> success]
PipelineRun(pipeline, success) ==
    [metric |-> "pipeline", label |-> pipeline, success |-> success]

\* the values of a generation override: an int, a string that reads as a
\* number or does not, None, or no such key
IntValue(v) == [type |-> "int", numeric |-> TRUE, value |-> v]
StrValue(numeric, v) == [type |-> "str", numeric |-> numeric, value |-> v]
NoneValue == [type |-> "None", numeric |-> FALSE, value |-> 0]
MaxTokensInputs ==
    {NoOverride, NoneValue, IntValue(64), IntValue(0), StrValue(TRUE, 64),
     StrValue(FALSE, 0)}
PromptInputs == {NoOverride, StrValue(FALSE, 0)}

\* _build_generation_request, line 138: the keys that are kept
Sanitized(request) ==
    {k \in {"max_tokens", "prompt"} :
        /\ request[k].type \notin {"absent", "None"}
        /\ k # "prompt"}

\* GenerationRequest.max_tokens: int, ge=1, le=4096; a string that reads as
\* an int is taken as that int
MaxTokensValid(v) == v.numeric /\ v.value >= 1 /\ v.value <= 4096

\* mutant: the merged parameter set is not validated
BuildGenerationRequestUnchecked(request) ==
    [raised |-> NoError, params |-> {"prompt"} \cup Sanitized(request)]

\* _build_generation_request and model_dump(exclude_unset=True), lines
\* 76-80 and 138-142
BuildGenerationRequest(request) ==
    IF "max_tokens" \in Sanitized(request) /\ ~MaxTokensValid(request.max_tokens)
    THEN [raised |-> "ValueError: Invalid generation overrides supplied",
          params |-> {}]
    ELSE [raised |-> NoError, params |-> {"prompt"} \cup Sanitized(request)]

\* what the transcription backend does with a call
WhisperBehaviours ==
    {"local ok", "local fails", "remote ok", "remote not configured",
     "remote api error", "remote response is no model"}

\* WhisperService.transcribe: the error it raises and what it records
WhisperTranscribe(behaviour) ==
    CASE behaviour = "local ok" ->
           [raised |-> NoError,
            recorded |-> <<ExternalCall("whisper_local", TRUE)>>]
      [] behaviour = "local fails" ->
           [raised |-> "Exception: local transcription",
            recorded |-> <<ExternalCall("whisper_local", FALSE)>>]
      [] behaviour = "remote not configured" ->
           [raised |-> "RuntimeError: Whisper remote backend is not configured.",
            recorded |-> <<>>]
      [] behaviour = "remote api error" ->
           [raised |-> "RuntimeError: Remote Whisper transcription failed",
            recorded |-> <<ExternalCall("whisper_remote", FALSE)>>]
      [] behaviour = "remote response is no model" ->
           [raised |-> "AttributeError: model_dump", recorded |-> <<>>]
      [] behaviour = "remote ok" ->
           [raised |-> NoError,
            recorded |-> <<ExternalCall("whisper_remote", TRUE)>>]

\* what the generation backend does with a call
LlmBehaviours == {"ok", "not loaded", "call fails", "no choices"}

\* mutant: the generation call is recorded only when it returned
LlmGenerateSuccessOnly(behaviour) ==
    CASE behaviour = "not loaded" ->
           [called |-> FALSE, raised |-> "RuntimeError: LLM model is not loaded",
            recorded |-> <<>>]
      [] behaviour = "call fails" ->
           [called |-> TRUE, raised |-> "Exception: llama.cpp",
            recorded |-> <<>>]
      [] behaviour = "no choices" ->
           [called |-> TRUE, raised |-> "KeyError: choices",
            recorded |-> <<ExternalCall("llm_generation", TRUE)>>]
      [] behaviour = "ok" ->
           [called |-> TRUE, raised |-> NoError,
            recorded |-> <<ExternalCall("llm_generation", TRUE)>>]

\* LLMService.model, then lines 82-89: whether the model is called, the
\* error raised and what is recorded
LlmGenerate(behaviour) ==
    CASE behaviour = "not loaded" ->
           [called |-> FALSE, raised |-> "RuntimeError: LLM model is not loaded",
            recorded |-> <<>>]
      [] behaviour = "call fails" ->
           [called |-> TRUE, raised |-> "Exception: llama.cpp",
            recorded |-> <<ExternalCall("llm_generation", FALSE)>>]
      [] behaviour = "no choices" ->
           [called |-> TRUE, raised |-> "KeyError: choices",
            recorded |-> <<ExternalCall("llm_generation", TRUE)>>]
      [] behaviour = "ok" ->
           [called |-> TRUE, raised |-> NoError,
            recorded |-> <<ExternalCall("llm_generation", TRUE)>>]

\* what the synthesis backend does with a call
OpenAudioBehaviours ==
    {"ok", "http error", "json without audio", "json with bad base64"}

\* OpenAudioService.synthesize: the error it raises and what it records
OpenAudioSynthesize(behaviour) ==
    CASE behaviour = "http error" ->
           [raised |-> "RuntimeError: OpenAudio synthesis failed",
            recorded |-> <<ExternalCall("openaudio_synthesize", FALSE)>>]
      [] behaviour = "json without audio" ->
           [raised |-> "RuntimeError: OpenAudio response missing audio payload",
            recorded |-> <<>>]
      [] behaviour = "json with bad base64" ->
           [raised |-> "binascii.Error: Incorrect padding",
            recorded |-> <<>>]
      [] behaviour = "ok" ->
           [raised |-> NoError,
            recorded |-> <<ExternalCall("openaudio_synthesize", TRUE)>>]

\* the values the backends hand back
TranscriptionInputs == {"transcription 1", "transcription 2"}
ReplyInputs == {"reply 1", "reply 2"}
AudioInputs == {"audio 1", "audio 2"}

\* mutant: synthesize_stream opens the stream before it returns
OpenAudioSynthesizeStreamEager(behaviour, text) ==
    [raised |-> NoError, recorded |-> <<>>,
     handle |-> [NoStream EXCEPT !.status = "attempting", !.text = text,
                                 !.pass = 1]]

\* OpenAudioService.synthesize_stream: it builds the payload and returns
\* the handle; the backend is called when the handle is iterated
OpenAudioSynthesizeStream(behaviour, text) ==
    [raised |-> NoError, recorded |-> <<>>,
     handle |-> [NoStream EXCEPT !.status = "unconsumed", !.text = text]]

\* mutants: a stage that raised is run again; a stage that raised ends the
\* invocation with what it has so far
AbortAndRetry(stage, behaviour, error, recorded) ==
    /\ dialogue' = [dialogue EXCEPT !.pc = stage]
    /\ observations' = observations \o recorded
    /\ UNCHANGED outcome
AbortWithPartial(stage, behaviour, error, recorded) ==
    /\ dialogue' = [dialogue EXCEPT !.pc = "returned"]
    /\ observations' = observations \o recorded
                          \o <<PipelineRun("speech_dialogue", FALSE)>>
    /\ outcome' = [NoOutcome EXCEPT !.returned = "DialogueResult",
                                    !.stage = stage, !.behaviour = behaviour,
                                    !.parts = {"transcription"}]

\* lines 115-117: a stage raised; the pipeline records its failure and
\* raises the same error.  The outcome keeps the stage and what the backend
\* did.
Abort(stage, behaviour, error, recorded) ==
    /\ dialogue' = [dialogue EXCEPT !.pc = "raised"]
    /\ observations' = observations \o recorded
                          \o <<PipelineRun("speech_dialogue", FALSE)>>
    /\ outcome' = [NoOutcome EXCEPT !.raised = error, !.stage = stage,
                                    !.behaviour = behaviour]

\* mutant: what the backend handed back is dropped
ProceedUnbound(pc, recorded, local, value) ==
    /\ dialogue' = [dialogue EXCEPT !.pc = pc, !.backend[local] = value]
    /\ observations' = observations \o recorded
    /\ UNCHANGED outcome

\* a stage is done: what the backend handed back (kept in `backend`) is
\* bound to a local and the next stage follows
Proceed(pc, recorded, local, value) ==
    /\ dialogue' = [dialogue EXCEPT !.pc = pc, ![local] = value,
                                    !.backend[local] = value]
    /\ observations' = observations \o recorded
    /\ UNCHANGED outcome

\* mutant: an error does not leave the try of line 68
RaisedNever(error) == FALSE

\* an error was raised inside the try of line 68
Raised(error) == error # NoError

\* run_dialogue is invoked, lines 53-67
StartDialogue(stream_audio, max_tokens, prompt) ==
    /\ dialogue.pc \in {"idle", "returned", "raised"}
    /\ dialogue.n < MaxDialogues
    /\ dialogue' = [NoLocals EXCEPT
                      !.pc = "transcribe", !.n = dialogue.n + 1,
                      !.request = [stream_audio |-> stream_audio,
                                   max_tokens |-> max_tokens,
                                   prompt |-> prompt]]
    /\ backendCalls' = <<>>
    /\ observations' = <<>>
    /\ outcome' = NoOutcome
    /\ stream' = NoStream
    /\ UNCHANGED <<limiter, limiterVars, twin, derived, sideVars>>

\* lines 69-73
Transcribe(behaviour, transcription) ==
    /\ dialogue.pc = "transcribe"
    /\ backendCalls' = Append(backendCalls, "transcribe")
    /\ LET call == WhisperTranscribe(behaviour)
       IN  IF Raised(call.raised)
           THEN Abort("transcribe", behaviour, call.raised, call.recorded)
           ELSE Proceed("build", call.recorded, "transcription",
                        transcription)
    /\ UNCHANGED <<limiter, limiterVars, twin, derived, sideVars, stream>>

\* lines 75-80
BuildRequest ==
    /\ dialogue.pc = "build"
    /\ LET built == BuildGenerationRequest(dialogue.request)
       IN  IF Raised(built.raised)
           THEN Abort("build", "invalid overrides", built.raised, <<>>)
           ELSE /\ dialogue' = [dialogue EXCEPT !.pc = "generate",
                                   !.generation_params = built.params]
                /\ UNCHANGED <<observations, outcome>>
    /\ UNCHANGED <<limiter, limiterVars, twin, derived, sideVars, backendCalls,
                   stream>>

\* lines 81-89
Generate(behaviour, response_text) ==
    /\ dialogue.pc = "generate"
    /\ LET call == LlmGenerate(behaviour)
       IN  /\ backendCalls' = IF call.called
                              THEN Append(backendCalls, "generate")
                              ELSE backendCalls
           /\ IF Raised(call.raised)
              THEN Abort("generate", behaviour, call.raised, call.recorded)
              ELSE Proceed("synthesize", call.recorded, "response_text",
                           response_text)
    /\ UNCHANGED <<limiter, limiterVars, twin, derived, sideVars, stream>>

\* lines 91-120
Synthesize(behaviour, audio) ==
    /\ dialogue.pc = "synthesize"
    /\ backendCalls' = Append(backendCalls,
                              IF dialogue.request.stream_audio
                              THEN "synthesize_stream" ELSE "synthesize")
    /\ LET text == dialogue.response_text
           streamed == OpenAudioSynthesizeStream(behaviour, text)
           call == IF dialogue.request.stream_audio
                   THEN [raised |-> streamed.raised,
                         recorded |-> streamed.recorded]
                   ELSE OpenAudioSynthesize(behaviour)
       IN  IF Raised(call.raised)
           THEN /\ Abort("synthesize", behaviour, call.raised, call.recorded)
                /\ UNCHANGED stream
           ELSE /\ dialogue' = [dialogue EXCEPT
                                   !.pc = "returned", !.synthesized = text,
                                   !.backend.synthesis =
                                       IF dialogue.request.stream_audio
                                       THEN NoValue ELSE audio]
                /\ observations' = observations \o call.recorded
                                      \o <<PipelineRun("speech_dialogue", TRUE)>>
                /\ stream' = IF dialogue.request.stream_audio
                             THEN streamed.handle ELSE NoStream
                /\ outcome' =
                      [NoOutcome EXCEPT
                         !.returned = IF dialogue.request.stream_audio
                                      THEN "DialogueStreamResult"
                                      ELSE "DialogueResult",
                         !.parts = {"transcription", "response_text",
                                    IF dialogue.request.stream_audio
                                    THEN "synthesis_stream" ELSE "synthesis"},
                         !.transcription = dialogue.transcription,
                         !.response_text = text,
                         !.synthesis = IF dialogue.request.stream_audio
                                       THEN NoValue ELSE audio]
    /\ UNCHANGED <<limiter, limiterVars, twin, derived, sideVars>>

InitDialogue ==
    /\ limiter = NoLimiter
    /\ NoCalls
    /\ twin = NoTwin
    /\ derived = NoDerived
    /\ NoDialogue
    /\ NoSide

NextDialogue ==
    \/ \E stream_audio \in BOOLEAN, max_tokens \in MaxTokensInputs,
          prompt \in PromptInputs :
            StartDialogue(stream_audio, max_tokens, prompt)
    \/ \E behaviour \in WhisperBehaviours,
          transcription \in TranscriptionInputs :
            Transcribe(behaviour, transcription)
    \/ BuildRequest
    \/ \E behaviour \in LlmBehaviours, response_text \in ReplyInputs :
            Generate(behaviour, response_text)
    \/ \E behaviour \in OpenAudioBehaviours, audio \in AudioInputs :
            Synthesize(behaviour, audio)

SpecDialogue == InitDialogue /\ [][NextDialogue]_vars

\* ------------------------------------------ the synthesis keyword arguments
\* the keys of a synthesis override bag: two reserved ones and two the
\* adapter takes; a key is absent, or present with None or with a value
OverrideKeys == {"text", "stream", "normalize", "top_p"}
OverrideValues == {NoValue, "v1", "v2"}
OverrideBags == UNION {[keys -> OverrideValues] : keys \in SUBSET OverrideKeys}

\* mutant: only `stream` and None values are dropped
PrepareSynthesisKwargsKeepText(overrides) ==
    [key \in {k \in DOMAIN overrides :
                  k \notin {"stream"} /\ overrides[k] # NoValue}
       |-> overrides[key]]

\* conversation.py lines 144-153
PrepareSynthesisKwargs(overrides) ==
    [key \in {k \in DOMAIN overrides :
                  k \notin {"text", "stream"} /\ overrides[k] # NoValue}
       |-> overrides[key]]

\* conversation.py lines 94-97 and 105-108: the call
\* synthesize(text=response_text, **synthesis_kwargs); a keyword given twice
\* is a TypeError and the adapter is not entered
SynthesisCall(text, kwargs) ==
    IF "text" \in DOMAIN kwargs
    THEN [raised |-> "TypeError: multiple values for keyword argument 'text'",
          passed |-> NoKwargs]
    ELSE [raised |-> NoError,
          passed |-> [key \in DOMAIN kwargs \cup {"text"} |->
                         IF key = "text" THEN text ELSE kwargs[key]]]

\* conversation.py lines 91-108 on one override bag and one reply
PrepareAndCall ==
    /\ ~prepared.done
    /\ LET filtered == PrepareSynthesisKwargs(prepared.overrides)
           call == SynthesisCall(prepared.reply, filtered)
       IN  prepared' = [prepared EXCEPT !.done = TRUE, !.filtered = filtered,
                                        !.passed = call.passed,
                                        !.raised = call.raised]
    /\ UNCHANGED <<limiter, limiterVars, twin, derived, dialogueVars,
                   prompted, invocations, edgeVars>>

InitPrepare ==
    /\ limiter = NoLimiter
    /\ NoCalls
    /\ twin = NoTwin
    /\ derived = NoDerived
    /\ NoDialogue
    /\ prompted = NoPrompted
    /\ invocations = NoInvocations
    /\ NoEdge
    /\ prepared \in {[NoPrepared EXCEPT !.overrides = overrides,
                                        !.reply = reply] :
                        overrides \in OverrideBags, reply \in ReplyInputs}

NextPrepare == PrepareAndCall

SpecPrepare == InitPrepare /\ [][NextPrepare]_vars

\* --------------------------------------------------------------- the prompt
\* a text is a sequence of characters; the literal pieces of the prompt's
\* template and the placeholder are single elements of the sequence
Whitespace == {" ", "\n"}
Characters == Whitespace \cup {"a"}
Texts == UNION {[1..n -> Characters] : n \in 0..MaxTextLen}

\* instructions: Optional[str]
InstructionInputs ==
    {NoInstructions} \cup {[given |-> TRUE, text |-> text] : text \in Texts}

\* str.strip()
RECURSIVE StripLeft(_)
StripLeft(text) ==
    IF text # <<>> /\ Head(text) \in Whitespace
    THEN StripLeft(Tail(text)) ELSE text

RECURSIVE StripRight(_)
StripRight(text) ==
    IF text # <<>> /\ text[Len(text)] \in Whitespace
    THEN StripRight(SubSeq(text, 1, Len(text) - 1)) ELSE text

Strip(text) == StripRight(StripLeft(text))

Placeholder == <<"(no transcript available)">>

\* mutant: the transcript is taken as it is unless it is empty
BuildPromptUnstripped(transcription_text, instructions) ==
    LET user_text == IF transcription_text # <<>>
                     THEN transcription_text ELSE Placeholder
    IN  IF instructions.given /\ instructions.text # <<>>
        THEN Strip(instructions.text) \o <<"\n\nUser: ">> \o user_text
                \o <<"\nAssistant:">>
        ELSE <<"User: ">> \o user_text \o <<"\nAssistant:">>

\* conversation.py lines 122-130
BuildPrompt(transcription_text, instructions) ==
    LET user_text == IF Strip(transcription_text) # <<>>
                     THEN Strip(transcription_text) ELSE Placeholder
    IN  IF instructions.given /\ instructions.text # <<>>
        THEN Strip(instructions.text) \o <<"\n\nUser: ">> \o user_text
                \o <<"\nAssistant:">>
        ELSE <<"User: ">> \o user_text \o <<"\nAssistant:">>

\* conversation.py line 75 on one transcript and one instruction
CallBuildPrompt ==
    /\ ~prompted.done
    /\ prompted' = [prompted EXCEPT
                      !.done = TRUE,
                      !.prompt = BuildPrompt(prompted.transcription_text,
                                             prompted.instructions)]
    /\ UNCHANGED <<limiter, limiterVars, twin, derived, dialogueVars,
                   prepared, invocations, edgeVars>>

InitPrompt ==
    /\ limiter = NoLimiter
    /\ NoCalls
    /\ twin = NoTwin
    /\ derived = NoDerived
    /\ NoDialogue
    /\ prepared = NoPrepared
    /\ invocations = NoInvocations
    /\ NoEdge
    /\ prompted \in {[NoPrompted EXCEPT !.transcription_text = text,
                                        !.instructions = instructions] :
                        text \in Texts, instructions \in InstructionInputs}

NextPrompt == CallBuildPrompt

SpecPrompt == InitPrompt /\ [][NextPrompt]_vars

\* ------------------------------------------------- concurrent invocations
\* mutant: the locals of run_dialogue are kept on the service
FrameShared(i) == 1

\* lines 53-120: the locals of an invocation live in the frame of its own
\* coroutine; the service keeps the three adapters and nothing else (lines
\* 42-51)
Frame(i) == i

\* the frame of invocation i
FrameOf(i) == invocations.frames[Frame(i)]

\* lines 115-117 in invocation i: the error of the stage is raised
Fails(i, error) ==
    invocations' = [invocations EXCEPT
                      !.frames[Frame(i)].pc = "raised",
                      !.handed[i].error = error,
                      !.results[i].raised = error]

\* run_dialogue is invoked and suspends at the await of line 69
Invoke(i, stream_audio) ==
    /\ ~invocations.handed[i].started
    /\ invocations' = [invocations EXCEPT
                         !.frames[Frame(i)] =
                             [NoFrame EXCEPT !.pc = "transcribe",
                                             !.stream_audio = stream_audio],
                         !.handed[i].started = TRUE]
    /\ UNCHANGED <<limiter, limiterVars, twin, derived, dialogueVars,
                   prepared, prompted, edgeVars>>

\* invocation i resumes at line 69 and runs to the await of line 83
ResumeTranscribed(i, behaviour, transcription) ==
    /\ invocations.handed[i].started
    /\ FrameOf(i).pc = "transcribe"
    /\ LET call == WhisperTranscribe(behaviour)
       IN  IF Raised(call.raised)
           THEN Fails(i, call.raised)
           ELSE invocations' =
                   [invocations EXCEPT
                      !.frames[Frame(i)].pc = "generate",
                      !.frames[Frame(i)].transcription = transcription,
                      !.handed[i].transcription = transcription]
    /\ UNCHANGED <<limiter, limiterVars, twin, derived, dialogueVars,
                   prepared, prompted, edgeVars>>

\* invocation i resumes at line 83 and runs to the await of line 94 or 105
ResumeGenerated(i, behaviour, response_text) ==
    /\ invocations.handed[i].started
    /\ FrameOf(i).pc = "generate"
    /\ LET call == LlmGenerate(behaviour)
       IN  IF Raised(call.raised)
           THEN Fails(i, call.raised)
           ELSE invocations' =
                   [invocations EXCEPT
                      !.frames[Frame(i)].pc = "synthesize",
                      !.frames[Frame(i)].response_text = response_text,
                      !.handed[i].response_text = response_text]
    /\ UNCHANGED <<limiter, limiterVars, twin, derived, dialogueVars,
                   prepared, prompted, edgeVars>>

\* invocation i resumes at line 94 or 105 and returns
ResumeSynthesized(i, behaviour, audio) ==
    /\ invocations.handed[i].started
    /\ FrameOf(i).pc = "synthesize"
    /\ LET frame == FrameOf(i)
           call == IF frame.stream_audio
                   THEN OpenAudioSynthesizeStream(behaviour,
                                                  frame.response_text)
                   ELSE OpenAudioSynthesize(behaviour)
           synthesis == IF frame.stream_audio
                        THEN call.handle.text ELSE audio
       IN  IF Raised(call.raised)
           THEN Fails(i, call.raised)
           ELSE invocations' =
                   [invocations EXCEPT
                      !.frames[Frame(i)].pc = "returned",
                      !.handed[i].synthesis = synthesis,
                      !.results[i] =
                          [NoResult EXCEPT
                             !.returned = IF frame.stream_audio
                                          THEN "DialogueStreamResult"
                                          ELSE "DialogueResult",
                             !.transcription = frame.transcription,
                             !.response_text = frame.response_text,
                             !.synthesis = synthesis]]
    /\ UNCHANGED <<limiter, limiterVars, twin, derived, dialogueVars,
                   prepared, prompted, edgeVars>>

InitConcurrent ==
    /\ limiter = NoLimiter
    /\ NoCalls
    /\ twin = NoTwin
    /\ derived = NoDerived
    /\ NoDialogue
    /\ NoSide

NextConcurrent ==
    \E i \in 1..NumInvocations :
        \/ \E stream_audio \in BOOLEAN : Invoke(i, stream_audio)
        \/ \E behaviour \in WhisperBehaviours,
              transcription \in TranscriptionInputs :
                ResumeTranscribed(i, behaviour, transcription)
        \/ \E behaviour \in LlmBehaviours, response_text \in ReplyInputs :
                ResumeGenerated(i, behaviour, response_text)
        \/ \E behaviour \in OpenAudioBehaviours, audio \in AudioInputs :
                ResumeSynthesized(i, behaviour, audio)

SpecConcurrent == InitConcurrent /\ [][NextConcurrent]_vars

\* ------------------------------------------- iterating the stream handle
\* openaudio.py line 228: the wait before the next attempt, in seconds
Backoff(attempt) == IF 2 ^ attempt < 10 THEN 2 ^ attempt ELSE 10

\* settings.openaudio_max_retries, a positive integer
MaxRetriesInputs == {1, 4}

\* mutant: the last failure is followed by one more wait and attempt
StreamFailureUnbounded(s) ==
    [s EXCEPT !.status = "attempting",
              !.waits = Append(@, Backoff(s.attempt))]

\* openaudio.py lines 222-235: an attempt ended in httpx.HTTPError; past
\* the last retry the iterator raises, before it the iterator sleeps and
\* loops
StreamFailure(s) ==
    IF s.attempt > s.retries
    THEN [s EXCEPT !.status = "raised", !.raised = "RuntimeError"]
    ELSE [s EXCEPT !.status = "attempting",
                   !.waits = Append(@, Backoff(s.attempt))]

\* the consumer calls iterator_factory() (api/v1/speech.py line 277) and
\* starts pulling: openaudio.py lines 204-206, a new generator with its own
\* attempt counter
IterateStream(retries) ==
    /\ stream.status \in {"unconsumed", "done", "raised"}
    /\ stream.pass < MaxPasses
    /\ stream' = [stream EXCEPT !.status = "attempting", !.pass = @ + 1,
                                !.retries = retries, !.attempt = 0,
                                !.yielded = 0, !.requests = 0,
                                !.delivered = 0, !.waits = <<>>,
                                !.raised = NoError]
    /\ UNCHANGED <<limiter, limiterVars, twin, derived, sideVars, dialogue,
                   backendCalls, observations, outcome>>

\* openaudio.py lines 207-216: the next attempt posts the payload; the
\* response has a success status, or the request or raise_for_status raises
OpenStream(ok) ==
    /\ stream.status = "attempting"
    /\ LET s == [stream EXCEPT !.attempt = @ + 1, !.yielded = 0,
                               !.requests = @ + 1]
       IN  IF ok
           THEN /\ stream' = [s EXCEPT !.status = "streaming"]
                /\ UNCHANGED observations
           ELSE /\ stream' = StreamFailure(s)
                /\ observations' = Append(observations,
                                     ExternalCall("openaudio_stream", FALSE))
    /\ UNCHANGED <<limiter, limiterVars, twin, derived, sideVars, dialogue,
                   backendCalls, outcome>>

\* openaudio.py lines 217-219: a chunk arrives and is yielded to the consumer
YieldChunk ==
    /\ stream.status = "streaming"
    /\ stream.yielded < MaxChunks
    /\ stream' = [stream EXCEPT !.yielded = @ + 1,
                                !.delivered = @ + 1]
    /\ UNCHANGED <<limiter, limiterVars, twin, derived, sideVars, dialogue,
                   backendCalls, observations, outcome>>

\* mutant: a stream that breaks off is recorded as a failure of the pipeline
BreakStreamFailsPipeline ==
    /\ stream.status = "streaming"
    /\ stream' = StreamFailure(stream)
    /\ observations' = observations
                          \o <<ExternalCall("openaudio_stream", FALSE),
                               PipelineRun("speech_dialogue", FALSE)>>
    /\ UNCHANGED <<limiter, limiterVars, twin, derived, sideVars, dialogue,
                   backendCalls, outcome>>

\* openaudio.py lines 217 and 222-223: the response breaks off
BreakStream ==
    /\ stream.status = "streaming"
    /\ stream' = StreamFailure(stream)
    /\ observations' = Append(observations,
                              ExternalCall("openaudio_stream", FALSE))
    /\ UNCHANGED <<limiter, limiterVars, twin, derived, sideVars, dialogue,
                   backendCalls, outcome>>

\* openaudio.py lines 220-221: the response ends
EndStream ==
    /\ stream.status = "streaming"
    /\ stream' = [stream EXCEPT !.status = "done"]
    /\ observations' = Append(observations,
                              ExternalCall("openaudio_stream", TRUE))
    /\ UNCHANGED <<limiter, limiterVars, twin, derived, sideVars, dialogue,
                   backendCalls, outcome>>

InitStreaming == InitDialogue

NextStreaming ==
    \/ \E stream_audio \in BOOLEAN :
            StartDialogue(stream_audio, NoOverride, NoOverride)
    \/ \E behaviour \in WhisperBehaviours,
          transcription \in TranscriptionInputs :
            Transcribe(behaviour, transcription)
    \/ BuildRequest
    \/ \E behaviour \in LlmBehaviours, response_text \in ReplyInputs :
            Generate(behaviour, response_text)
    \/ \E behaviour \in OpenAudioBehaviours, audio \in AudioInputs :
            Synthesize(behaviour, audio)
    \/ \E retries \in MaxRetriesInputs : IterateStream(retries)
    \/ \E ok \in BOOLEAN : OpenStream(ok)
    \/ YieldChunk
    \/ BreakStream
    \/ EndStream

SpecStreaming == InitStreaming /\ [][NextStreaming]_vars

\* run_dialogue has returned a stream, after a local transcription, and the
\* consumer holds the handle
ReturnedStream(transcription, response_text) ==
    /\ dialogue = [NoLocals EXCEPT
                     !.pc = "returned", !.n = 1,
                     !.request.stream_audio = TRUE,
                     !.generation_params =
                         BuildGenerationRequest(
                             [NoRequest EXCEPT !.stream_audio = TRUE]).params,
                     !.transcription = transcription,
                     !.response_text = response_text,
                     !.synthesized = response_text,
                     !.backend.transcription = transcription,
                     !.backend.response_text = response_text]
    /\ backendCalls = <<"transcribe", "generate", "synthesize_stream">>
    /\ observations = <<ExternalCall("whisper_local", TRUE),
                        ExternalCall("llm_generation", TRUE),
                        PipelineRun("speech_dialogue", TRUE)>>
    /\ outcome = [NoOutcome EXCEPT
                    !.returned = "DialogueStreamResult",
                    !.parts = {"transcription", "response_text",
                               "synthesis_stream"},
                    !.transcription = transcription,
                    !.response_text = response_text]
    /\ stream = OpenAudioSynthesizeStream("ok", response_text).handle

InitIterator ==
    /\ limiter = NoLimiter
    /\ NoCalls
    /\ twin = NoTwin
    /\ derived = NoDerived
    /\ NoSide
    /\ \E transcription \in TranscriptionInputs, response_text \in ReplyInputs :
          ReturnedStream(transcription, response_text)

NextIterator ==
    \/ \E retries \in MaxRetriesInputs : IterateStream(retries)
    \/ \E ok \in BOOLEAN : OpenStream(ok)
    \/ YieldChunk
    \/ BreakStream
    \/ EndStream

\* the consumer keeps pulling; every request is answered or fails within
\* the client's timeout, and every response ends or breaks off
SpecIterator ==
    /\ InitIterator
    /\ [][NextIterator]_vars
    /\ WF_vars(\E ok \in BOOLEAN : OpenStream(ok))
    /\ WF_vars(BreakStream \/ EndStream)

\* ------------------------------------------------------ API-key enforcement
\* the configurations: enforcement on or off, a header name or none, and
\* the configured keys (settings.py lines 39-53)
KeySets == {{}, {"k1"}, {"k1", "k2"}}

\* the header values a request or connection may carry: none, the empty
\* string, a configured key, a key that is never configured
KeyHeaders == {NoHeader, "", "k1", "k3"}

\* api_key.py lines 32-35, with None as NoHeader
ExtractKey(header_name, header) ==
    IF header_name = "" THEN NoHeader ELSE header

\* api_key.py lines 14-29: the HTTPException raised, if any
RequireApiKey(settings, header) ==
    LET provided_key == ExtractKey(settings.header_name, header)
    IN  IF ~settings.enabled
        THEN [NoChecked EXCEPT !.done = TRUE, !.passed = TRUE]
        ELSE IF provided_key = NoHeader
        THEN [NoChecked EXCEPT !.done = TRUE, !.code = 401]
        ELSE IF provided_key \notin settings.keys
        THEN [NoChecked EXCEPT !.done = TRUE, !.code = 403]
        ELSE [NoChecked EXCEPT !.done = TRUE, !.passed = TRUE]

\* mutant: the socket check asks only for the presence of a key
EnforceWebsocketApiKeyAnyKey(settings, header) ==
    LET provided_key == ExtractKey(settings.header_name, header)
    IN  IF ~settings.enabled
        THEN [NoChecked EXCEPT !.done = TRUE, !.passed = TRUE]
        ELSE IF provided_key = NoHeader
        THEN [NoChecked EXCEPT !.done = TRUE, !.code = 4401, !.closed = TRUE]
        ELSE [NoChecked EXCEPT !.done = TRUE, !.passed = TRUE]

\* api_key.py lines 38-59: what is returned, and the close code if the
\* socket was closed
EnforceWebsocketApiKey(settings, header) ==
    LET provided_key == ExtractKey(settings.header_name, header)
    IN  IF ~settings.enabled
        THEN [NoChecked EXCEPT !.done = TRUE, !.passed = TRUE]
        ELSE IF provided_key = NoHeader
        THEN [NoChecked EXCEPT !.done = TRUE, !.code = 4401, !.closed = TRUE]
        ELSE IF provided_key \notin settings.keys
        THEN [NoChecked EXCEPT !.done = TRUE, !.code = 4403, !.closed = TRUE]
        ELSE [NoChecked EXCEPT !.done = TRUE, !.passed = TRUE]

\* a request with the header goes through the HTTP dependency
CheckRequest ==
    /\ ~auth.http.done
    /\ auth' = [auth EXCEPT !.http = RequireApiKey(auth, auth.header)]
    /\ UNCHANGED <<limiter, limiterVars, twin, derived, dialogueVars,
                   prepared, prompted, invocations, delivery, socket, ledger>>

\* a connection with the header goes through the socket check
CheckWebsocket ==
    /\ ~auth.ws.done
    /\ auth' = [auth EXCEPT !.ws = EnforceWebsocketApiKey(auth, auth.header)]
    /\ UNCHANGED <<limiter, limiterVars, twin, derived, dialogueVars,
                   prepared, prompted, invocations, delivery, socket, ledger>>

InitApiKey ==
    /\ limiter = NoLimiter
    /\ NoCalls
    /\ twin = NoTwin
    /\ derived = NoDerived
    /\ NoDialogue
    /\ prepared = NoPrepared
    /\ prompted = NoPrompted
    /\ invocations = NoInvocations
    /\ delivery = NoDelivery
    /\ socket = NoSocket
    /\ ledger = NoLedger
    /\ auth \in {[NoAuth EXCEPT !.enabled = enabled, !.header_name = name,
                                !.keys = keys, !.header = header] :
                    enabled \in BOOLEAN, name \in HeaderNames,
                    keys \in KeySets, header \in KeyHeaders}

NextApiKey == CheckRequest \/ CheckWebsocket

SpecApiKey == InitApiKey /\ [][NextApiKey]_vars

\* ------------------------------------------------- the /dialogue endpoint
\* the errors run_dialogue raises that are instances of ValueError (the
\* override validation's own, and base64's binascii.Error from
\* openaudio.py line 137) and of RuntimeError
ValueErrors ==
    {"ValueError: Invalid generation overrides supplied",
     "binascii.Error: Incorrect padding"}
RuntimeErrors ==
    {"RuntimeError: Whisper remote backend is not configured.",
     "RuntimeError: Remote Whisper transcription failed",
     "RuntimeError: LLM model is not loaded",
     "RuntimeError: OpenAudio synthesis failed",
     "RuntimeError: OpenAudio response missing audio payload"}

\* speech.py lines 251-258: the HTTPException made of the error; str(exc)
\* is the error's text
DialogueErrorResponse(error) ==
    IF error \in ValueErrors
    THEN [status |-> 400, detail |-> error]
    ELSE IF error \in RuntimeErrors
    THEN [status |-> 503, detail |-> "Speech services are unavailable"]
    ELSE [status |-> 500, detail |-> "Failed to process dialogue request."]

\* the events of the streamed response
Event(name) == [event |-> name, attempt |-> 0, chunk |-> 0]
AudioChunk(attempt, chunk) ==
    [event |-> "audio_chunk", attempt |-> attempt, chunk |-> chunk]
HeadEvents == <<Event("metadata"), Event("transcript"),
                Event("assistant_text")>>

\* speech.py lines 241-295: run_dialogue has ended and the endpoint answers:
\* with the HTTPException, with the materialized response, or with a
\* StreamingResponse over dialogue_stream()
Respond ==
    /\ dialogue.pc \in {"returned", "raised"}
    /\ delivery.n < dialogue.n
    /\ delivery' =
          IF dialogue.pc = "raised"
          THEN [NoDelivery EXCEPT
                  !.n = dialogue.n,
                  !.status = DialogueErrorResponse(outcome.raised).status,
                  !.detail = DialogueErrorResponse(outcome.raised).detail]
          ELSE [NoDelivery EXCEPT
                  !.n = dialogue.n, !.status = 200,
                  !.body = IF outcome.returned = "DialogueStreamResult"
                           THEN {"dialogue_stream"}
                           ELSE {"transcript", "response_text",
                                 "audio_base64"}]
    /\ UNCHANGED <<limiter, limiterVars, twin, derived, dialogueVars,
                   prepared, prompted, invocations, auth, socket, ledger>>

\* the response of this invocation is the streamed one
Streamed ==
    /\ delivery.n = dialogue.n
    /\ delivery.body = {"dialogue_stream"}

\* speech.py lines 264-276: dialogue_stream yields the next of its three
\* events before the audio
EmitHead ==
    /\ Streamed
    /\ Len(delivery.events) < Len(HeadEvents)
    /\ delivery' = [delivery EXCEPT
                      !.events = Append(@, HeadEvents[Len(delivery.events) + 1])]
    /\ UNCHANGED <<limiter, limiterVars, twin, derived, dialogueVars,
                   prepared, prompted, invocations, auth, socket, ledger>>

\* speech.py line 277: dialogue_stream calls iterator_factory()
StartAudio(retries) ==
    /\ Streamed
    /\ delivery.events = HeadEvents
    /\ stream.status = "unconsumed"
    /\ IterateStream(retries)

\* speech.py lines 277-281 over openaudio.py lines 217-219: the iterator
\* yields a chunk and dialogue_stream yields its audio_chunk event
DeliverChunk ==
    /\ Streamed
    /\ stream.status = "streaming"
    /\ stream.yielded < MaxChunks
    /\ stream' = [stream EXCEPT !.yielded = @ + 1, !.delivered = @ + 1]
    /\ delivery' = [delivery EXCEPT
                      !.events = Append(@, AudioChunk(stream.attempt,
                                                      stream.yielded + 1))]
    /\ UNCHANGED <<limiter, limiterVars, twin, derived, prepared, prompted,
                   invocations, auth, socket, ledger, dialogue,
                   backendCalls, observations, outcome>>

\* mutant: the closing event is left out
DeliverEndSilent ==
    /\ Streamed
    /\ stream.status = "streaming"
    /\ stream' = [stream EXCEPT !.status = "done"]
    /\ observations' = Append(observations,
                              ExternalCall("openaudio_stream", TRUE))
    /\ UNCHANGED <<limiter, limiterVars, twin, derived, sideVars, dialogue,
                   backendCalls, outcome>>

\* speech.py lines 277 and 282 over openaudio.py lines 220-221: the
\* response ends, the iterator is exhausted and dialogue_stream yields done
DeliverEnd ==
    /\ Streamed
    /\ stream.status = "streaming"
    /\ stream' = [stream EXCEPT !.status = "done"]
    /\ observations' = Append(observations,
                              ExternalCall("openaudio_stream", TRUE))
    /\ delivery' = [delivery EXCEPT !.events = Append(@, Event("done"))]
    /\ UNCHANGED <<limiter, limiterVars, twin, derived, prepared, prompted,
                   invocations, auth, socket, ledger, dialogue,
                   backendCalls, outcome>>

InitDelivery == InitDialogue

NextDelivery ==
    \/ \E stream_audio \in BOOLEAN, max_tokens \in MaxTokensInputs :
            /\ delivery.n = dialogue.n
            /\ StartDialogue(stream_audio, max_tokens, NoOverride)
    \/ \E behaviour \in WhisperBehaviours,
          transcription \in TranscriptionInputs :
            Transcribe(behaviour, transcription)
    \/ BuildRequest
    \/ \E behaviour \in LlmBehaviours, response_text \in ReplyInputs :
            Generate(behaviour, response_text)
    \/ \E behaviour \in OpenAudioBehaviours, audio \in AudioInputs :
            Synthesize(behaviour, audio)
    \/ Respond
    \/ EmitHead
    \/ \E retries \in {1, 2} : StartAudio(retries)
    \/ \E ok \in BOOLEAN : Streamed /\ OpenStream(ok)
    \/ DeliverChunk
    \/ Streamed /\ BreakStream
    \/ DeliverEnd

SpecDelivery == InitDelivery /\ [][NextDelivery]_vars

\* ------------------------------------------------- socket admission
\* speech_to_text_ws (speech.py:298-304), text_to_speech_ws (speech.py:
\* 351-357) and generate_ws (generation.py:88-94) begin with the same three
\* statements: the API-key check, the rate-limit check, accept.  One
\* connection at a time goes through them; the rate-limit check is the
\* limiter's own WsConnect and ExclusiveSection.
SocketEndpoints == {"speech_to_text_ws", "text_to_speech_ws", "generate_ws"}

\* the value of the key header a connection carries; the same header is the
\* limiter's identifier (rate_limiter.py:89)
SocketHeaders == {NoHeader, "k1", "k3"}

\* the rate-limit check of the connection has been called and has returned
RateChecked ==
    /\ calls = socket.ticket + 1
    /\ InFlight = 0
    /\ last.call.kind = "ws"

\* a client connects to an endpoint: the handler starts
SocketConnect(endpoint, header) ==
    /\ socket.pc \in {"idle", "open", "closed"}
    /\ socket.n < MaxSockets
    /\ calls < MaxCalls
    /\ socket' = [NoSocket EXCEPT !.pc = "key", !.n = socket.n + 1,
                                  !.endpoint = endpoint, !.header = header,
                                  !.host = "10.0.0.7", !.ticket = calls]
    /\ UNCHANGED <<limiter, limiterVars, twin, derived, dialogueVars,
                   prepared, prompted, invocations, auth, delivery, ledger>>

\* mutant: the handler goes on after a failed key check
SocketKeyCheckNoReturn ==
    /\ socket.pc = "key"
    /\ LET checked == EnforceWebsocketApiKey(auth, socket.header)
       IN  socket' = [socket EXCEPT
               !.key = checked,
               !.pc = "limit",
               !.closes = IF checked.closed THEN Append(@, checked.code)
                          ELSE @]
    /\ UNCHANGED <<limiter, limiterVars, twin, derived, dialogueVars,
                   prepared, prompted, invocations, auth, delivery, ledger>>

\* `if not await enforce_websocket_api_key(websocket): return`
SocketKeyCheck ==
    /\ socket.pc = "key"
    /\ LET checked == EnforceWebsocketApiKey(auth, socket.header)
       IN  socket' = [socket EXCEPT
               !.key = checked,
               !.pc = IF checked.passed THEN "limit" ELSE "closed",
               !.closes = IF checked.closed THEN Append(@, checked.code)
                          ELSE @]
    /\ UNCHANGED <<limiter, limiterVars, twin, derived, dialogueVars,
                   prepared, prompted, invocations, auth, delivery, ledger>>

\* `await enforce_websocket_rate_limit(websocket)` is called
SocketRateCheck ==
    /\ socket.pc = "limit"
    /\ calls = socket.ticket
    /\ WsConnect(socket.header, socket.host)

\* `if not ...: return`: the rate-limit check closed the socket
SocketLimited ==
    /\ socket.pc = "limit"
    /\ RateChecked
    /\ last.resp.returned = "False"
    /\ socket' = [socket EXCEPT !.pc = "closed",
                                !.closes = @ \o last.resp.closes]
    /\ UNCHANGED <<limiter, limiterVars, twin, derived, dialogueVars,
                   prepared, prompted, invocations, auth, delivery, ledger>>

\* `await websocket.accept()`
SocketAccept ==
    /\ socket.pc = "limit"
    /\ RateChecked
    /\ last.resp.returned = "True"
    /\ socket' = [socket EXCEPT !.pc = "open", !.accepted = TRUE]
    /\ UNCHANGED <<limiter, limiterVars, twin, derived, dialogueVars,
                   prepared, prompted, invocations, auth, delivery, ledger>>

\* a limiter or none, key settings, and no connection yet
InitSocket ==
    /\ limiter \in {NoLimiter} \cup {RateLimiterInit(s) : s \in SettingsInputs}
    /\ NoCalls
    /\ twin = NoTwin
    /\ derived = NoDerived
    /\ NoDialogue
    /\ prepared = NoPrepared
    /\ prompted = NoPrompted
    /\ invocations = NoInvocations
    /\ delivery = NoDelivery
    /\ socket = NoSocket
    /\ ledger = NoLedger
    /\ auth \in {[NoAuth EXCEPT !.enabled = enabled,
                                !.header_name = "X-API-Key",
                                !.keys = {"k1"}] : enabled \in BOOLEAN}

NextSocket ==
    \/ \E endpoint \in SocketEndpoints, header \in SocketHeaders :
           SocketConnect(endpoint, header)
    \/ SocketKeyCheck
    \/ SocketRateCheck
    \/ \E call \in BagToSet(waiting) : ExclusiveSection(call)
    \/ SocketLimited
    \/ SocketAccept
    \/ TickGuard

SpecSocket == InitSocket /\ [][NextSocket]_vars

\* ------------------------------------------------- one caller at a time
\* A caller runs acquire from line 47 to its return before the next caller
\* starts, and time passes between the calls.  Beside the limiter runs the
\* same limiter with the sweep switched off (bucket_ttl <= 0, line 105).

\* lines 51-73 with _cleanup_locked returning at line 106
SeqAcquireUnswept(map, key, now) ==
    LET refilled == RefilledBucket(BucketsGet(map, key), now)
        allowed == Allowed(refilled)
        stored == SpentBucket(refilled)
    IN  [buckets |-> BucketsPut(map, key, stored),
         allowed |-> allowed,
         retry_after |-> RetryAfter(allowed, stored)]

\* acquire(identifier, scope), lines 41-76, by a caller that nobody
\* interleaves with
Acquire(identifier, scope) ==
    /\ calls < MaxLedgerCalls
    /\ ~FailOpen
    /\ LET call == Call("acquire", identifier, scope, clock)
           key == call.bucket_key
           swept == SeqAcquire(buckets, key, clock)
           unswept == SeqAcquireUnswept(ledger.plain, key, clock)
           result == [allowed |-> swept.allowed,
                      retry_after |-> swept.retry_after]
       IN  /\ buckets' = swept.buckets
           /\ rejections' = IF swept.allowed THEN rejections
                             ELSE [rejections EXCEPT ![scope] = @ + 1]
           /\ last' = [NoLast EXCEPT
                         !.call = call, !.entered = TRUE,
                         !.before = BucketsGet(buckets, key),
                         !.expected = result,
                         !.resp = Finish("acquire", swept.allowed,
                                         swept.retry_after)]
           /\ ledger' = [plain |-> unswept.buckets,
                         key |-> key,
                         result |-> result,
                         plain_result |-> [allowed |-> unswept.allowed,
                                           retry_after |-> unswept.retry_after],
                         before |-> BucketsGet(buckets, key),
                         told |-> [k \in DOMAIN ledger.told \cup {key} |->
                                      IF k = key
                                      THEN [called |-> TRUE, at |-> clock,
                                            result |-> result]
                                      ELSE ledger.told[k]],
                         prior |-> IF key \in DOMAIN ledger.told
                                   THEN ledger.told[key] ELSE NoTold,
                         admitted |-> [k \in DOMAIN ledger.admitted \cup {key} |->
                                      LET old == IF k \in DOMAIN ledger.admitted
                                                 THEN ledger.admitted[k]
                                                 ELSE <<>>
                                      IN  IF k = key /\ swept.allowed
                                          THEN Append(old, clock)
                                          ELSE old]]
    /\ calls' = calls + 1
    /\ UNCHANGED <<limiter, clock, lock, waiting, inside, serial, burst, owner>>
    /\ UNCHANGED <<twin, derived, dialogueVars, prepared, prompted,
                   invocations, auth, delivery, socket>>

\* an enabled limiter that nobody has called
InitLedger ==
    /\ limiter \in {RateLimiterInit(s) :
                      s \in {c \in SettingsInputs : c.rate_limit_enabled}}
    /\ NoCalls
    /\ twin = NoTwin
    /\ derived = NoDerived
    /\ NoDialogue
    /\ NoSide

NextLedger ==
    \/ \E input \in LockInputs : Acquire(input[1], input[2])
    \/ Tick

SpecLedger == InitLedger /\ [][NextLedger]_vars

\* ------------------------------------------------- cancellation
\* the awaits of run_dialogue: the task can be cancelled while it is
\* suspended in one of them
Awaits == {"transcribe", "generate", "synthesize"}

\* The task is cancelled while suspended in a backend call (lines 69, 85, 94
\* or 105): asyncio.CancelledError, a BaseException, is raised at the await.
\* Neither the adapters' `except Exception` nor the one at line 115 catches
\* it, and the finally of lines 118-120 finds pipeline_success False.
Cancel ==
    /\ dialogue.pc \in Awaits
    /\ backendCalls' = Append(backendCalls,
                              IF dialogue.pc = "synthesize"
                                 /\ dialogue.request.stream_audio
                              THEN "synthesize_stream" ELSE dialogue.pc)
    /\ dialogue' = [dialogue EXCEPT !.pc = "raised"]
    /\ outcome' = [NoOutcome EXCEPT !.raised = "CancelledError",
                                    !.stage = dialogue.pc,
                                    !.behaviour = "cancelled"]
    /\ UNCHANGED <<observations, stream>>
    /\ UNCHANGED <<limiter, limiterVars, twin, derived, sideVars>>

NextCancel == NextDialogue \/ Cancel

SpecCancel == InitDialogue /\ [][NextCancel]_vars

\* ================================================================ claims
\* a step that takes a caller through the exclusive section
SectionStep == BagCardinality(waiting') < BagCardinality(waiting)

\* the refill lines 55-58 ask for, on a bucket found in the map
RefillOf(bucket, now) ==
    LET elapsed == IF now > bucket.last_refill THEN now - bucket.last_refill ELSE 0
        sum == bucket.tokens + elapsed * limiter.cap_num
    IN  IF sum < limiter.cap_num * limiter.window THEN sum
        ELSE limiter.cap_num * limiter.window

\* C1: token bucket conservation.  For every bucket all of whose calls since
\* its creation carried the creation's timestamp (no elapsed time), at most
\* floor(capacity) calls were admitted, the bucket holds the capacity less one
\* token per admission, a call was rejected only after exactly
\* floor(capacity) admissions, and a rejected call left the token count as
\* it found it.
C1_TokenBucketConservation ==
    /\ \A k \in DOMAIN burst :
          /\ burst[k].admits <= FloorCapacity
          /\ burst[k].rejects > 0 => burst[k].admits = FloorCapacity
          /\ k \in DOMAIN buckets
          /\ buckets[k].tokens =
                limiter.cap_num * limiter.window
                    - burst[k].admits * limiter.den * limiter.window
    /\ (last.entered /\ ~last.resp.acquire.allowed
            /\ last.call.bucket_key \in DOMAIN burst)
          => /\ last.before # NoBucket
             /\ last.stored[last.call.bucket_key].tokens = last.before.tokens

C1_Witness ==
    \E k \in DOMAIN burst :
        /\ burst[k].rejects > 0
        /\ burst[k].admits = 2
        /\ FloorCapacity = 2
        /\ last.call.bucket_key = k
        /\ ~last.resp.acquire.allowed

\* C2: every bucket in the map holds between 0 tokens and the capacity.
C2_TokensWithinCapacity ==
    \A k \in DOMAIN buckets :
        /\ 0 <= buckets[k].tokens
        /\ buckets[k].tokens <= limiter.cap_num * limiter.window

\* a refill over elapsed time that was cut at the capacity, and another
\* bucket strictly between 0 and the capacity
C2_Witness ==
    /\ last.entered
    /\ last.before # NoBucket
    /\ last.call.now > last.before.last_refill
    /\ last.before.tokens
          + (last.call.now - last.before.last_refill) * limiter.cap_num
            > limiter.cap_num * limiter.window
    /\ \E k \in DOMAIN buckets :
          0 < buckets[k].tokens /\ buckets[k].tokens < limiter.cap_num * limiter.window

\* the caller a section step takes out of the waiting callers
Stepped ==
    CHOOSE c \in BagToSet(waiting) : CopiesIn(c, waiting') < CopiesIn(c, waiting)

\* C3: an acquire on an existing bucket sets its tokens to
\* min(capacity, tokens + elapsed * refillRate), elapsed being the time from
\* the bucket's lastRefill to the call's timestamp, sets lastRefill to that
\* timestamp, and then takes exactly one token if and only if the refilled
\* bucket holds at least one; and no other step changes the tokens of a
\* bucket that stays in the map.
C3_RefillThenSpend ==
    [][/\ SectionStep =>
            LET call == Stepped
                k == call.bucket_key
                one == limiter.den * limiter.window
            IN  k \in DOMAIN buckets =>
                    LET refilled == RefillOf(buckets[k], call.now)
                    IN  /\ last'.call = call
                        /\ last'.resp.acquire.allowed = (refilled >= one)
                        /\ buckets'[k].tokens =
                              refilled - (IF refilled >= one THEN one ELSE 0)
                        /\ buckets'[k].last_refill = call.now
       /\ \A k \in DOMAIN buckets \cap DOMAIN buckets' :
            buckets'[k].tokens # buckets[k].tokens
                => SectionStep /\ Stepped.bucket_key = k
      ]_vars

\* an admission out of a refill over elapsed time that stayed under the
\* capacity
C3_Witness ==
    /\ last.entered
    /\ last.before # NoBucket
    /\ last.call.now > last.before.last_refill
    /\ RefillOf(last.before, last.call.now) < limiter.cap_num * limiter.window
    /\ last.resp.acquire.allowed
    /\ buckets[last.call.bucket_key].tokens =
          RefillOf(last.before, last.call.now) - limiter.den * limiter.window

\* C4: concurrent acquires are serialized.  With the exclusive section taken
\* in two steps under the lock, whenever no caller is inside it the bucket
\* map equals the map of the sequential execution of the same calls in the
\* order they took the lock, every caller is answered the decision and the
\* retry hint that sequential execution gives it, at most one caller is
\* inside, and of the calls on one key at one timestamp at most
\* floor(capacity) are admitted.
C4_Serialized ==
    /\ BagCardinality(inside) <= 1
    /\ inside = EmptyBag => buckets = serial
    /\ last.entered =>
          /\ last.resp.acquire.allowed = last.expected.allowed
          /\ last.resp.acquire.retry_after = last.expected.retry_after
    /\ \A k \in DOMAIN burst : burst[k].admits <= FloorCapacity

\* two callers with one timestamp compete for the last token of a bucket:
\* one is inside the exclusive section, the other waits for the lock
C4_Witness ==
    \E in \in BagToSet(inside), c \in BagToSet(waiting) :
        /\ c.bucket_key = in.call.bucket_key
        /\ c.now = in.call.now
        /\ in.before # NoBucket
        /\ limiter.den * limiter.window <= in.bucket.tokens
        /\ in.bucket.tokens < 2 * limiter.den * limiter.window

\* the buckets created by a call with this identifier and scope
BucketsOf(identifier, scope) ==
    {k \in DOMAIN buckets : owner[k] = <<identifier, scope>>}

OtherScope(scope) == IF scope = "api_key" THEN "ip" ELSE "api_key"

\* C5: scope isolation.  A call never draws from a bucket that a call with
\* the same identifier text under the other scope created: the bucket it
\* used was created under its own scope, and when it found no bucket of its
\* own it was admitted from a full one, whatever is left under the other
\* scope; and the call leaves the bucket under the other scope as it was.
C5_ScopeIsolation ==
    last.entered =>
        /\ last.call.bucket_key \in DOMAIN owner
        /\ owner[last.call.bucket_key][1] = last.call.identifier
              => owner[last.call.bucket_key][2] = last.call.scope
        /\ BucketsOf(last.call.identifier, OtherScope(last.call.scope))
              \cap BucketsOf(last.call.identifier, last.call.scope) = {}
        /\ \A k \in BucketsOf(last.call.identifier, OtherScope(last.call.scope)) :
              /\ k # last.call.bucket_key
              /\ buckets[k] = last.stored[k]
        /\ last.before = NoBucket =>
              /\ last.resp.acquire.allowed
              /\ buckets[last.call.bucket_key].tokens =
                    (limiter.cap_num - limiter.den) * limiter.window

\* the bucket of k1 under one scope is exhausted, and the first call with k1
\* under the other scope is admitted
C5_Witness ==
    /\ last.entered
    /\ last.before = NoBucket
    /\ last.resp.acquire.allowed
    /\ \E k \in BucketsOf(last.call.identifier, OtherScope(last.call.scope)) :
          /\ buckets[k].tokens < limiter.den * limiter.window
          /\ k \in DOMAIN burst
          /\ burst[k].rejects > 0

\* C6: per-identifier isolation.  A call never draws from a bucket that a
\* call with another identifier created, so a caller whose identifier has no
\* bucket yet is admitted from a full bucket even when another identifier's
\* quota under the same scope is exhausted.
C6_IdentifierIsolation ==
    last.entered =>
        /\ last.call.bucket_key \in DOMAIN owner
        /\ owner[last.call.bucket_key][2] = last.call.scope
              => owner[last.call.bucket_key][1] = last.call.identifier
        /\ \A k \in DOMAIN buckets :
              (owner[k][2] = last.call.scope /\ owner[k][1] # last.call.identifier)
                  => /\ k # last.call.bucket_key
                     /\ buckets[k] = last.stored[k]

\* one API key is exhausted and was rejected, and the first call with
\* another API key is admitted
C6_Witness ==
    /\ last.entered
    /\ last.call.scope = "api_key"
    /\ last.before = NoBucket
    /\ last.resp.acquire.allowed
    /\ buckets[last.call.bucket_key].tokens =
          (limiter.cap_num - limiter.den) * limiter.window
    /\ \E k \in DOMAIN buckets :
          /\ owner[k][2] = "api_key"
          /\ owner[k][1] # last.call.identifier
          /\ buckets[k].tokens < limiter.den * limiter.window
          /\ k \in DOMAIN burst
          /\ burst[k].rejects > 0

\* C7: a disabled limiter is a no-op.  With enabled = false every acquire
\* returns (allowed = true, retryAfter = 0) without entering the exclusive
\* section, no caller ever waits for the lock, no rejection is counted, and
\* the bucket map stays as constructed: empty.
C7_DisabledIsNoOp ==
    (limiter.configured /\ ~limiter.enabled) =>
        /\ buckets = EmptyMap
        /\ waiting = EmptyBag
        /\ \A scope \in Scopes : rejections[scope] = 0
        /\ last.call.kind = "acquire" =>
              /\ ~last.entered
              /\ last.resp.acquire.called
              /\ last.resp.acquire.allowed
              /\ last.resp.acquire.retry_after.num = 0
              /\ last.resp.returned = "tuple"

\* every call of the run was made on a disabled limiter, at different times
C7_Witness ==
    /\ limiter.configured
    /\ ~limiter.enabled
    /\ calls = MaxCalls
    /\ last.call.kind = "acquire"
    /\ last.call.now > 0
    /\ last.resp.acquire.allowed

\* C8: no limiter configured is treated as a disabled one.  On either
\* transport, with no limiter or a disabled one, the guard returns without
\* calling acquire: enforce_rate_limit raises nothing and
\* enforce_websocket_rate_limit returns true and closes nothing; and
\* whenever acquire is called, the only negative outcome is allowed = false:
\* the HTTP guard raises 429 and the socket guard closes with 4429 exactly
\* when acquire answered allowed = false.
C8_NoLimiterLikeDisabled ==
    /\ (~limiter.configured \/ ~limiter.enabled) =>
          /\ buckets = EmptyMap
          /\ waiting = EmptyBag
          /\ last.call.kind \in {"http", "ws"} =>
                /\ ~last.resp.acquire.called
                /\ last.resp.status_code = 0
                /\ last.resp.closes = <<>>
                /\ last.call.kind = "ws" => last.resp.returned = "True"
    /\ last.resp.acquire.called =>
          /\ limiter.configured
          /\ (last.resp.status_code # 0 \/ last.resp.closes # <<>>)
                => ~last.resp.acquire.allowed

\* a socket connection let through with no limiter configured, after other
\* calls
C8_Witness ==
    /\ ~limiter.configured
    /\ calls = MaxCalls
    /\ last.call.kind = "ws"
    /\ last.resp.returned = "True"
    /\ last.resp.closes = <<>>

\* the age of a bucket at the timestamp of a call, in seconds
Age(bucket, now) == now - bucket.last_refill

\* C9: bucket eviction.  When an acquire that entered the exclusive section
\* has returned, of the buckets the map held when the call stored its own,
\* those older than five windows at the call's timestamp are gone from the
\* map, and those of that age exactly or younger are in it, unchanged; the
\* map holds nothing else.
C9_Eviction ==
    last.entered =>
        /\ DOMAIN buckets \subseteq DOMAIN last.stored
        /\ \A k \in DOMAIN last.stored :
              IF Age(last.stored[k], last.call.now) > 5 * limiter.window
              THEN k \notin DOMAIN buckets
              ELSE k \in DOMAIN buckets /\ buckets[k] = last.stored[k]

\* one call swept a bucket older than the TTL and kept one of exactly the
\* TTL's age
C9_Witness ==
    /\ last.entered
    /\ \E k \in DOMAIN last.stored :
          /\ Age(last.stored[k], last.call.now) > 5 * limiter.window
          /\ k \notin DOMAIN buckets
    /\ \E k \in DOMAIN buckets :
          /\ k # last.call.bucket_key
          /\ Age(buckets[k], last.call.now) = 5 * limiter.window

\* the tokens a call finds after lines 51-59: the capacity in a new bucket,
\* the refill of an existing one
TokensFound(call) ==
    IF call.bucket_key \in DOMAIN buckets
    THEN RefillOf(buckets[call.bucket_key], call.now)
    ELSE limiter.cap_num * limiter.window

\* C10: a rejected acquire returns retryAfter = max(0, (1 - tokens) /
\* refillRate), tokens being those of the bucket after the refill, and
\* counts exactly one rejection, under the scope of the call; an admitted
\* acquire returns retryAfter = 0 and counts none; no other step counts a
\* rejection.  retryAfter is num / den seconds, a token is den * window
\* units and refillRate is cap_num units per second.
C10_RetryAfterAndRejection ==
    [][IF SectionStep
       THEN LET call == Stepped
                found == TokensFound(call)
                one == limiter.den * limiter.window
                retry == last'.resp.acquire.retry_after
            IN  /\ last'.call = call
                /\ last'.resp.acquire.allowed = (found >= one)
                /\ retry.den > 0
                /\ IF found >= one
                   THEN /\ retry.num = 0
                        /\ rejections' = rejections
                   ELSE /\ retry.num * limiter.cap_num = retry.den * (one - found)
                        /\ retry.num >= 0
                        /\ rejections' =
                              [s \in Scopes |->
                                 rejections[s] + (IF s = call.scope THEN 1 ELSE 0)]
       ELSE rejections' = rejections
      ]_vars

\* a rejection after a refill that did not reach one token, with a positive
\* retry hint, counted under the scope of the call
C10_Witness ==
    /\ last.entered
    /\ ~last.resp.acquire.allowed
    /\ last.before # NoBucket
    /\ last.call.now > last.before.last_refill
    /\ last.resp.acquire.retry_after.num > 0
    /\ last.resp.acquire.retry_after.num < limiter.den * limiter.window
    /\ rejections[last.call.scope] > 0

\* a bucket map with every lastRefill moved by d seconds
Shifted(map, d) ==
    [k \in DOMAIN map |-> [map[k] EXCEPT !.last_refill = @ + d]]

\* C11: determinism of admission.  Two runs of one limiter (same capacity,
\* same refillRate) over the same sequence of (key, elapsed time) calls in
\* the same exclusive-section order, the second started at another time on
\* the clock, give every call the same (allowed, retryAfter) and hold the
\* same buckets with the same tokens, their lastRefill apart by exactly
\* the difference of the two clocks.
C11_Determinism ==
    /\ twin.ra.allowed = twin.rb.allowed
    /\ twin.ra.retry_after = twin.rb.retry_after
    /\ twin.b = Shifted(twin.a, twin.offset)

\* the two runs are apart on the clock, and their last call, after some
\* elapsed time and on a bucket found in the map, was rejected with a
\* positive retry hint in both
C11_Witness ==
    /\ twin.offset > 0
    /\ twin.n = MaxTwinCalls
    /\ twin.now > 0
    /\ ~twin.ra.allowed
    /\ ~twin.rb.allowed
    /\ twin.rb.retry_after.num > 0
    /\ Cardinality(DOMAIN twin.b) > 1

\* the API-key header carries a value: the limiter names a header, the
\* connection has it, and it is not empty
HeaderCarriesValue ==
    /\ limiter.api_key_header # ""
    /\ derived.header # NoHeader
    /\ derived.header # ""

\* a client host is known
HostKnown == derived.host # NoHost /\ derived.host # ""

\* the pair the precedence asks for
Precedence ==
    IF HeaderCarriesValue THEN <<derived.header, "api_key">>
    ELSE IF HostKnown THEN <<derived.host, "ip">>
    ELSE <<"anonymous", "ip">>

\* C12: identifier derivation precedence.  Each of the two helpers returns
\* (header value, "api_key") when the API-key header carries a value, else
\* (client host, "ip") when a client host is known, else ("anonymous",
\* "ip"); so the two return the same pair for the same header and host.
C12_DerivationPrecedence ==
    /\ derived.request # NoPair => derived.request = Precedence
    /\ derived.websocket # NoPair => derived.websocket = Precedence
    /\ (derived.request # NoPair /\ derived.websocket # NoPair)
          => derived.request = derived.websocket

\* both helpers were given a header value and a known client host, and
\* both chose the header
C12_Witness ==
    /\ HeaderCarriesValue
    /\ HostKnown
    /\ derived.header # derived.host
    /\ derived.request = <<derived.header, "api_key">>
    /\ derived.websocket = <<derived.header, "api_key">>

\* the tokens the last call found after lines 51-59
LastFound ==
    IF last.before = NoBucket
    THEN limiter.cap_num * limiter.window
    ELSE RefillOf(last.before, last.call.now)

\* the budget of the last call's identifier was exhausted: less than one
\* token after the refill
LastExhausted == LastFound < limiter.den * limiter.window

\* C13: HTTP enforcement.  When the budget of the caller's identifier is
\* exhausted, enforce_rate_limit fails the request with status 429 and a
\* Retry-After header that is an integer >= 1: the least integer not below
\* retryAfter, or 1 when retryAfter is 0.  When the budget is not
\* exhausted it returns without an error and without a header.
C13_HttpEnforcement ==
    (last.call.kind = "http" /\ last.entered) =>
        LET retry == last.resp.acquire.retry_after
            header == last.resp.retry_after_header
        IN  IF LastExhausted
            THEN /\ ~last.resp.acquire.allowed
                 /\ last.resp.status_code = 429
                 /\ header >= 1
                 /\ retry.num = 0 => header = 1
                 /\ retry.num > 0 =>
                       /\ header * retry.den >= retry.num
                       /\ (header - 1) * retry.den < retry.num
            ELSE /\ last.resp.acquire.allowed
                 /\ last.resp.status_code = 0
                 /\ header = 0

\* a request rejected with 429 whose retry hint, not a whole number of
\* seconds, was rounded up
C13_Witness ==
    /\ last.call.kind = "http"
    /\ last.entered
    /\ last.resp.status_code = 429
    /\ last.resp.acquire.retry_after.num % last.resp.acquire.retry_after.den # 0
    /\ last.resp.retry_after_header = 1

\* C14: WebSocket enforcement.  enforce_websocket_rate_limit returns false
\* if and only if the limiter rejected the connection, which it does
\* exactly when the budget is exhausted; in that case and in no other it
\* closes the socket, once, with code 4429; an admitted connection returns
\* true and the guard does not close it.
C14_WebsocketEnforcement ==
    last.call.kind = "ws" =>
        /\ last.resp.returned \in {"True", "False"}
        /\ (last.resp.returned = "False")
              <=> (last.resp.acquire.called /\ ~last.resp.acquire.allowed)
        /\ last.resp.closes =
              IF last.resp.returned = "False" THEN <<4429>> ELSE <<>>
        /\ last.resp.status_code = 0
        /\ last.entered =>
              /\ last.resp.acquire.called
              /\ last.resp.acquire.allowed = ~LastExhausted

\* a connection rejected and closed with 4429 after an earlier one on the
\* same bucket was admitted
C14_Witness ==
    /\ last.call.kind = "ws"
    /\ last.entered
    /\ last.before # NoBucket
    /\ last.resp.returned = "False"
    /\ last.resp.closes = <<WS_RATE_LIMIT_CLOSE_CODE>>

\* the entries of a sequence
Range(seq) == {seq[i] : i \in DOMAIN seq}

\* the entry points of the three stages, in the pipeline's order
StageCalls(stream_audio) ==
    <<"transcribe", "generate",
      IF stream_audio THEN "synthesize_stream" ELSE "synthesize">>

\* a backend's call was recorded as a success, or as a failure
Recorded(services, success) ==
    \E i \in DOMAIN observations :
        /\ observations[i].metric = "external_call"
        /\ observations[i].label \in services
        /\ observations[i].success = success

\* C15: pipeline stage ordering.  In every run_dialogue invocation the
\* entry points invoked so far are the first ones of transcription,
\* generation, synthesis, in that order; generation is invoked only after a
\* transcription that succeeded and synthesis only after a generation that
\* succeeded; and when a stage failed, the invocation has ended FAILED with
\* no later stage invoked.
C15_StageOrdering ==
    /\ \E n \in 0..3 :
          backendCalls = SubSeq(StageCalls(dialogue.request.stream_audio), 1, n)
    /\ "generate" \in Range(backendCalls) =>
          /\ Recorded({"whisper_local", "whisper_remote"}, TRUE)
          /\ ~Recorded({"whisper_local", "whisper_remote"}, FALSE)
          /\ outcome.stage \notin {"transcribe", "build"}
    /\ Range(backendCalls) \cap {"synthesize", "synthesize_stream"} # {} =>
          /\ Recorded({"llm_generation"}, TRUE)
          /\ ~Recorded({"llm_generation"}, FALSE)
          /\ outcome.stage \notin {"transcribe", "build", "generate"}
    /\ outcome.raised # NoError =>
          /\ dialogue.pc = "raised"
          /\ outcome.stage = "transcribe" => backendCalls = <<"transcribe">>
          /\ outcome.stage = "generate" =>
                Range(backendCalls) \subseteq {"transcribe", "generate"}

\* an invocation that failed in generation, the model called, after a
\* transcription that succeeded: synthesis was not invoked
C15_Witness ==
    /\ dialogue.pc = "raised"
    /\ outcome.stage = "generate"
    /\ outcome.behaviour = "call fails"
    /\ backendCalls = <<"transcribe", "generate">>
    /\ Recorded({"llm_generation"}, FALSE)

\* the validation error of _build_generation_request
ValidationError == "ValueError: Invalid generation overrides supplied"

\* C16: invalid override rejection.  When run_dialogue raises the
\* validation error for a generation override bag with a non-numeric value
\* in a numeric field, no backend call has been observed: the call counts
\* of transcription, generation and synthesis are all zero.
C16_NoBackendCallBeforeValidation ==
    (outcome.raised = ValidationError /\ ~dialogue.request.max_tokens.numeric)
        => backendCalls = <<>>

\* the merged parameter set of the invocation is invalid
InvalidOverrides ==
    /\ dialogue.request.max_tokens.type \in {"int", "str"}
    /\ \/ ~dialogue.request.max_tokens.numeric
       \/ dialogue.request.max_tokens.value < 1
       \/ dialogue.request.max_tokens.value > 4096

\* C17: an invalid generation override set never reaches the generation
\* backend.  When the merged parameter set is invalid, the invocation gets
\* no further than the validation: it raises the validation error, a
\* ValueError that no failing backend raises, and neither generation nor
\* synthesis is invoked or recorded.
C17_InvalidOverridesNeverReachBackend ==
    /\ (InvalidOverrides /\ dialogue.n > 0) =>
          /\ dialogue.pc \in {"transcribe", "build", "raised"}
          /\ Range(backendCalls) \subseteq {"transcribe"}
          /\ ~Recorded({"llm_generation", "openaudio_synthesize",
                        "openaudio_stream"}, TRUE)
          /\ ~Recorded({"llm_generation", "openaudio_synthesize",
                        "openaudio_stream"}, FALSE)
          /\ dialogue.pc = "raised" =>
                \/ outcome.stage = "transcribe"
                \/ outcome.stage = "build" /\ outcome.raised = ValidationError
    /\ outcome.raised = ValidationError <=> outcome.stage = "build"
    /\ outcome.stage = "build" => InvalidOverrides

\* an invocation with an out-of-range max_tokens, transcribed, that raised
\* the validation error
C17_Witness ==
    /\ dialogue.request.max_tokens = IntValue(0)
    /\ dialogue.pc = "raised"
    /\ outcome.raised = ValidationError
    /\ backendCalls = <<"transcribe">>

\* how many times an entry point of the given ones was invoked
Invocations(names, seq) == Cardinality({i \in DOMAIN seq : seq[i] \in names})

\* C18: the pipeline never retries a stage.  Within one run_dialogue
\* invocation every step invokes at most one more entry point, each of the
\* transcription adapter, the generation call and the synthesis entry point
\* is invoked at most once, and after a stage has failed no step of that
\* invocation follows: the next step, if any, starts another invocation.
C18_NoRetry ==
    [][/\ Invocations({"transcribe"}, backendCalls') <= 1
       /\ Invocations({"generate"}, backendCalls') <= 1
       /\ Invocations({"synthesize", "synthesize_stream"}, backendCalls') <= 1
       /\ dialogue'.n = dialogue.n =>
             /\ Len(backendCalls') <= Len(backendCalls) + 1
             /\ SubSeq(backendCalls', 1, Len(backendCalls)) = backendCalls
             /\ dialogue.pc # "raised"
       /\ dialogue'.n # dialogue.n =>
             /\ dialogue'.n = dialogue.n + 1
             /\ dialogue.pc \in {"idle", "returned", "raised"}
             /\ backendCalls' = <<>>
      ]_vars

\* an invocation that failed in synthesis, each entry point invoked once
C18_Witness ==
    /\ dialogue.pc = "raised"
    /\ outcome.stage = "synthesize"
    /\ outcome.behaviour = "http error"
    /\ backendCalls = <<"transcribe", "generate", "synthesize">>

\* the error each backend call fails with
StageError(stage, behaviour) ==
    CASE stage = "transcribe" /\ behaviour = "local fails" ->
           "Exception: local transcription"
      [] stage = "transcribe" /\ behaviour = "remote not configured" ->
           "RuntimeError: Whisper remote backend is not configured."
      [] stage = "transcribe" /\ behaviour = "remote api error" ->
           "RuntimeError: Remote Whisper transcription failed"
      [] stage = "transcribe" /\ behaviour = "remote response is no model" ->
           "AttributeError: model_dump"
      [] stage = "generate" /\ behaviour = "not loaded" ->
           "RuntimeError: LLM model is not loaded"
      [] stage = "generate" /\ behaviour = "call fails" ->
           "Exception: llama.cpp"
      [] stage = "generate" /\ behaviour = "no choices" ->
           "KeyError: choices"
      [] stage = "synthesize" /\ behaviour = "http error" ->
           "RuntimeError: OpenAudio synthesis failed"
      [] stage = "synthesize" /\ behaviour = "json without audio" ->
           "RuntimeError: OpenAudio response missing audio payload"
      [] stage = "synthesize" /\ behaviour = "json with bad base64" ->
           "binascii.Error: Incorrect padding"
      [] OTHER -> "no error"

BackendStages == {"transcribe", "generate", "synthesize"}

\* C19: no partial result.  When the transcription, generation or
\* synthesis call has failed, run_dialogue has returned nothing, neither a
\* DialogueResult nor a DialogueStreamResult nor a part of one: it has
\* raised, and the error it raised is the one the failing stage raised.  A
\* result is returned only whole and only when no stage failed.
C19_NoPartialResult ==
    /\ outcome.stage \in BackendStages =>
          /\ dialogue.pc = "raised"
          /\ outcome.returned = "None"
          /\ outcome.parts = {}
          /\ outcome.raised = StageError(outcome.stage, outcome.behaviour)
    /\ outcome.returned # "None" =>
          /\ dialogue.pc = "returned"
          /\ outcome.raised = NoError
          /\ outcome.stage = "none"
          /\ {"transcription", "response_text"} \subseteq outcome.parts
          /\ Cardinality(outcome.parts) = 3
          /\ Len(backendCalls) = 3
    /\ dialogue.pc = "raised" => outcome.raised # NoError

\* the generation call failed after a transcription that succeeded, and
\* nothing was returned, the transcript included
C19_Witness ==
    /\ outcome.stage = "generate"
    /\ outcome.behaviour = "no choices"
    /\ outcome.raised = "KeyError: choices"
    /\ outcome.returned = "None"
    /\ Recorded({"whisper_local", "whisper_remote"}, TRUE)

\* the metrics labels of a stage's backend
ServicesOf(stage) ==
    CASE stage = "transcribe" -> {"whisper_local", "whisper_remote"}
      [] stage = "generate" -> {"llm_generation"}
      [] stage = "synthesize" -> {"openaudio_synthesize", "openaudio_stream"}
      [] OTHER -> {}

\* the failure of the whole pipeline was recorded
PipelineFailureRecorded ==
    \E i \in DOMAIN observations :
        observations[i] = PipelineRun("speech_dialogue", FALSE)

\* C20: whenever a backend stage of the pipeline has failed, by any of its
\* failure paths, a failure observation against that backend and a failure
\* observation against the "speech_dialogue" pipeline have been recorded.
C20_FailureRecordedTwice ==
    outcome.stage \in BackendStages =>
        /\ Recorded(ServicesOf(outcome.stage), FALSE)
        /\ PipelineFailureRecorded

\* how often an observation was recorded
Occurrences(observation) ==
    Cardinality({i \in DOMAIN observations : observations[i] = observation})

\* C21: pipeline success is recorded only once the terminal result has been
\* constructed.  An invocation has recorded a success observation for
\* "speech_dialogue" if and only if run_dialogue has returned a result, and
\* then exactly once and with no failure observation beside it; in streaming
\* mode it is there from the moment the handle exists, whatever the
\* iteration of the handle does afterwards: no chunk delivered, chunks
\* delivered, or the chunk sequence failed.
C21_SuccessIffResult ==
    /\ Occurrences(PipelineRun("speech_dialogue", TRUE)) <= 1
    /\ Occurrences(PipelineRun("speech_dialogue", TRUE)) = 1
          <=> outcome.returned # "None"
    /\ outcome.returned # "None" =>
          Occurrences(PipelineRun("speech_dialogue", FALSE)) = 0
    /\ stream.status # "none" =>
          /\ outcome.returned = "DialogueStreamResult"
          /\ Occurrences(PipelineRun("speech_dialogue", TRUE)) = 1
          /\ Occurrences(PipelineRun("speech_dialogue", FALSE)) = 0

\* the chunk sequence of a returned handle failed after a chunk was
\* delivered, and the success of the pipeline stays recorded
C21_Witness ==
    /\ stream.status = "raised"
    /\ stream.delivered > 0
    /\ outcome.returned = "DialogueStreamResult"
    /\ Occurrences(PipelineRun("speech_dialogue", TRUE)) = 1

\* the generation call was invoked; it returned
GenerationInvoked == "generate" \in Range(backendCalls)
GenerationReturned ==
    /\ GenerationInvoked
    /\ ~(outcome.stage = "generate" /\ outcome.behaviour = "call fails")

C23_ExhaustedRetriesFailInvocation ==
    stream.status = "raised" =>
        /\ outcome.returned = "None"
        /\ Occurrences(PipelineRun("speech_dialogue", TRUE)) = 0
        /\ PipelineFailureRecorded
        /\ stream.delivered = 0

\* C24: the delivery mode is selected by the caller's request.  When
\* run_dialogue returns for a request with streaming, it has invoked the
\* streaming synthesis entry point once and the blocking one never, and it
\* returns a DialogueStreamResult whose chunk sequence is unconsumed: no
\* pass over it has begun, no request was sent and no chunk was pulled.
\* When it returns for a request without streaming, it has invoked the
\* blocking entry point once and the streaming one never, it returns a
\* DialogueResult, and there is no stream.
C24_DeliveryModeSelection ==
    [][dialogue.pc = "synthesize" /\ dialogue'.pc = "returned" =>
          IF dialogue.request.stream_audio
          THEN /\ outcome'.returned = "DialogueStreamResult"
               /\ Invocations({"synthesize_stream"}, backendCalls') = 1
               /\ Invocations({"synthesize"}, backendCalls') = 0
               /\ stream'.status = "unconsumed"
               /\ stream'.pass = 0
               /\ stream'.requests = 0
               /\ stream'.delivered = 0
               /\ stream'.text = dialogue.response_text
               /\ Occurrences(ExternalCall("openaudio_stream", TRUE))' = 0
               /\ Occurrences(ExternalCall("openaudio_stream", FALSE))' = 0
          ELSE /\ outcome'.returned = "DialogueResult"
               /\ Invocations({"synthesize"}, backendCalls') = 1
               /\ Invocations({"synthesize_stream"}, backendCalls') = 0
               /\ stream'.status = "none"]_vars

\* run_dialogue has returned a stream nobody has consumed yet
C24_Witness ==
    /\ dialogue.pc = "returned"
    /\ dialogue.request.stream_audio
    /\ outcome.returned = "DialogueStreamResult"
    /\ stream.status = "unconsumed"
    /\ backendCalls = <<"transcribe", "generate", "synthesize_stream">>

\* C25: the streaming sequence is single-pass.  Once the chunk sequence of a
\* streamed run_dialogue has been consumed, a second pass over it sends no
\* synthesis request and yields no chunk: it is empty or disallowed.
C25_SinglePass ==
    stream.pass >= 2 =>
        /\ stream.requests = 0
        /\ stream.delivered = 0

\* C26: the happy path.  When run_dialogue returns a materialized result,
\* all three backends have succeeded and the result holds exactly the
\* transcription the transcription adapter returned, exactly the reply text
\* the generation call returned and exactly the synthesis result the
\* synthesis adapter returned, and nothing else; the text handed to the
\* synthesis adapter is that reply text.
C26_HappyPath ==
    outcome.returned = "DialogueResult" =>
        /\ backendCalls = <<"transcribe", "generate", "synthesize">>
        /\ dialogue.backend.transcription \in TranscriptionInputs
        /\ dialogue.backend.response_text \in ReplyInputs
        /\ dialogue.backend.synthesis \in AudioInputs
        /\ outcome.transcription = dialogue.backend.transcription
        /\ outcome.response_text = dialogue.backend.response_text
        /\ outcome.synthesis = dialogue.backend.synthesis
        /\ outcome.parts = {"transcription", "response_text", "synthesis"}
        /\ dialogue.synthesized = dialogue.backend.response_text

\* a materialized result made of the second transcription, the first reply
\* and the second synthesis result
C26_Witness ==
    /\ outcome.returned = "DialogueResult"
    /\ outcome.transcription = "transcription 2"
    /\ outcome.response_text = "reply 1"
    /\ outcome.synthesis = "audio 2"
    /\ dialogue.synthesized = "reply 1"

\* the keys a caller may not set
ReservedKeys == {"text", "stream"}

\* C27: reserved-key stripping.  For every synthesis override bag, the
\* keyword arguments made of it contain no `text` and no `stream` key and no
\* key whose value is None, and contain every other key supplied with a
\* value, with that value; the call of the synthesis adapter goes through,
\* and in what it receives `text` is the generated reply and everything else
\* is those keyword arguments.
C27_ReservedKeysStripped ==
    prepared.done =>
        /\ DOMAIN prepared.filtered \cap ReservedKeys = {}
        /\ \A key \in DOMAIN prepared.filtered :
              prepared.filtered[key] # NoValue
        /\ DOMAIN prepared.filtered \subseteq DOMAIN prepared.overrides
        /\ \A key \in DOMAIN prepared.overrides \ ReservedKeys :
              prepared.overrides[key] # NoValue =>
                  /\ key \in DOMAIN prepared.filtered
                  /\ prepared.filtered[key] = prepared.overrides[key]
        /\ prepared.raised = NoError
        /\ DOMAIN prepared.passed = DOMAIN prepared.filtered \cup {"text"}
        /\ prepared.passed["text"] = prepared.reply
        /\ \A key \in DOMAIN prepared.filtered :
              prepared.passed[key] = prepared.filtered[key]

\* a bag that sets both reserved keys, one key to None and one to a value
C27_Witness ==
    /\ prepared.done
    /\ DOMAIN prepared.overrides = OverrideKeys
    /\ prepared.overrides["text"] = "v1"
    /\ prepared.overrides["stream"] = "v2"
    /\ prepared.overrides["normalize"] = NoValue
    /\ prepared.overrides["top_p"] = "v2"
    /\ DOMAIN prepared.passed = {"text", "top_p"}
    /\ prepared.passed["text"] = "reply 2"
    /\ prepared.passed["top_p"] = "v2"

\* the user turn of a prompt: what stands between the last "User: " and the
\* closing "\nAssistant:"
UserTurns(prompt) ==
    {SubSeq(prompt, i + 1, Len(prompt) - 1) :
        i \in {j \in DOMAIN prompt : prompt[j] \in {"User: ", "\n\nUser: "}}}

\* a text without a character that is no whitespace
Blank(text) == \A i \in DOMAIN text : text[i] \in Whitespace

\* C28: empty transcript substitution.  Every prompt built has one user
\* turn, closed by the assistant's cue, and the turn is never empty, with or
\* without instructions; for every transcript that is empty or only
\* whitespace, the prompt is non-empty and its user turn is the placeholder
\* "(no transcript available)".
C28_EmptyTranscriptSubstitution ==
    prompted.done =>
        /\ prompted.prompt # <<>>
        /\ prompted.prompt[Len(prompted.prompt)] = "\nAssistant:"
        /\ Cardinality(UserTurns(prompted.prompt)) = 1
        /\ \A turn \in UserTurns(prompted.prompt) : ~Blank(turn)
        /\ Blank(prompted.transcription_text) =>
              UserTurns(prompted.prompt) = {Placeholder}
        /\ ~Blank(prompted.transcription_text) =>
              UserTurns(prompted.prompt) = {Strip(prompted.transcription_text)}

\* a transcript of whitespace only, with instructions, got the placeholder
C28_Witness ==
    /\ prompted.done
    /\ prompted.transcription_text = <<" ", "\n">>
    /\ prompted.instructions = [given |-> TRUE, text |-> <<"a", " ">>]
    /\ prompted.prompt = <<"a", "\n\nUser: ", "(no transcript available)",
                           "\nAssistant:">>

\* the waits of a pass that failed `failures` times so far
RECURSIVE Waits(_)
Waits(failures) ==
    IF failures = 0 THEN <<>>
    ELSE Append(Waits(failures - 1), Min(2 ^ failures, 10))

\* the attempts that failed in the current pass
FailedAttempts ==
    IF stream.status \in {"streaming", "done"}
    THEN stream.attempt - 1 ELSE stream.attempt

\* C29: the retry of the streaming synthesis is bounded and terminates.  In
\* a pass over the chunk sequence the iterator has sent one request per
\* attempt and made at most max_retries + 1 attempts; it has waited once
\* after every failed attempt that was not the last, min(2^attempt, 10)
\* seconds after the attempt of that number; it has ended normally at the
\* first attempt that completed, and it has raised RuntimeError exactly when
\* attempt number max_retries + 1 failed.  No step starts an attempt after
\* the pass has ended or raised, and every pass that was started ends or
\* raises.
C29_BoundedRetry ==
    /\ [][/\ stream'.status \notin {"none", "unconsumed"} =>
                /\ stream'.attempt <= stream'.retries + 1
                /\ stream'.requests = stream'.attempt
                /\ stream'.raised # NoError <=> stream'.status = "raised"
                /\ stream'.status = "raised" =>
                      /\ stream'.raised = "RuntimeError"
                      /\ stream'.attempt = stream'.retries + 1
                      /\ stream'.waits = Waits(stream'.retries)
                /\ stream'.status # "raised" =>
                      stream'.waits = Waits(FailedAttempts')
                /\ stream'.status = "attempting" =>
                      stream'.attempt <= stream'.retries
          /\ stream.status \in {"done", "raised"}
                /\ stream'.pass = stream.pass =>
                      stream' = stream
          /\ stream.status = "streaming" /\ stream'.status = "done" =>
                /\ stream'.attempt = stream.attempt
                /\ stream'.waits = stream.waits
         ]_vars
    /\ stream.status \in {"attempting", "streaming"}
          ~> stream.status \in {"done", "raised"}

\* with four retries the iterator has waited 2, 4, 8 and 10 seconds and
\* raised after its fifth attempt
C29_Witness ==
    /\ stream.status = "raised"
    /\ stream.retries = 4
    /\ stream.attempt = 5
    /\ stream.requests = 5
    /\ stream.waits = <<2, 4, 8, 10>>
    /\ stream.raised = "RuntimeError"

\* the step is no step of invocation j: nothing was handed to j and j was
\* not invoked
Untouched(j) == invocations'.handed[j] = invocations.handed[j]

\* what invocation i returned is made of what the backends handed to i
OwnResult(i) ==
    LET result == invocations.results[i]
        handed == invocations.handed[i]
    IN  /\ result.returned # "None" =>
              /\ result.raised = NoError
              /\ handed.error = NoError
              /\ handed.transcription \in TranscriptionInputs
              /\ handed.response_text \in ReplyInputs
              /\ result.transcription = handed.transcription
              /\ result.response_text = handed.response_text
              /\ result.synthesis = handed.synthesis
              /\ result.returned = "DialogueStreamResult" =>
                    result.synthesis = handed.response_text
        /\ result.raised # NoError =>
              /\ result.returned = "None"
              /\ result.raised = handed.error

\* C30: concurrent invocations are independent.  Under every interleaving
\* of run_dialogue invocations on one service, what an invocation returns
\* is made only of the transcription, the reply text and the synthesis
\* output the backends handed to that invocation; an invocation raises only
\* the error of a stage of its own; and a step of one invocation, a failing
\* one included, changes neither the locals nor the result of another.
C30_IndependentInvocations ==
    [][\A j \in 1..NumInvocations :
          /\ OwnResult(j)'
          /\ Untouched(j) =>
                /\ invocations'.frames[j] = invocations.frames[j]
                /\ invocations'.results[j] = invocations.results[j]
      ]_vars

\* the first invocation failed in its generation call, and the second one
\* returned the values handed to it
C30_Witness ==
    /\ invocations.results[1].raised = "Exception: llama.cpp"
    /\ invocations.handed[1].transcription = "transcription 1"
    /\ invocations.results[2].returned = "DialogueResult"
    /\ invocations.results[2].transcription = "transcription 2"
    /\ invocations.results[2].response_text = "reply 2"
    /\ invocations.results[2].synthesis = "audio 1"

\* the decision a check's outcome stands for
Decision(checked) ==
    IF checked.passed THEN "pass"
    ELSE IF checked.code \in {401, 4401} THEN "missing"
    ELSE IF checked.code \in {403, 4403} THEN "invalid"
    ELSE "none"

\* the decision the configuration and the header call for
ExpectedDecision ==
    IF ~auth.enabled THEN "pass"
    ELSE IF auth.header_name = "" \/ auth.header = NoHeader THEN "missing"
    ELSE IF auth.header \notin auth.keys THEN "invalid"
    ELSE "pass"

\* C31: API-key enforcement decides alike on both transports.  With
\* enforcement disabled every request and connection passes; with it
\* enabled a missing key is rejected (HTTP 401; socket closed with 4401 and
\* False returned), a key that is not configured is rejected (HTTP 403;
\* socket closed with 4403 and False returned), and a configured key passes
\* without the socket being closed.
C31_SameDecisionOnBothTransports ==
    /\ auth.http.done =>
          /\ Decision(auth.http) = ExpectedDecision
          /\ auth.http.passed <=> auth.http.code = 0
          /\ ~auth.http.passed => auth.http.code \in {401, 403}
    /\ auth.ws.done =>
          /\ Decision(auth.ws) = ExpectedDecision
          /\ auth.ws.passed <=> ~auth.ws.closed
          /\ auth.ws.passed <=> auth.ws.code = 0
          /\ ~auth.ws.passed => auth.ws.code \in {4401, 4403}
    /\ auth.http.done /\ auth.ws.done =>
          Decision(auth.http) = Decision(auth.ws)

\* a key that is not configured was rejected on both transports
C31_Witness ==
    /\ auth.enabled
    /\ auth.keys = {"k1", "k2"}
    /\ auth.header = "k3"
    /\ auth.http.done /\ auth.http.code = 403
    /\ auth.ws.done /\ auth.ws.code = 4403 /\ auth.ws.closed

\* the endpoint has answered the invocation that raised
AnsweredError ==
    /\ delivery.n = dialogue.n
    /\ dialogue.pc = "raised"

\* C32: the error taxonomy at the dialogue delivery boundary.  When
\* run_dialogue raised, the endpoint reports the validation error of the
\* overrides as a caller error (400), a RuntimeError as 503 with the fixed
\* message, and any other exception as 500 with the fixed message; in the
\* last two cases the text of the exception is not in the response.
C32_ErrorTaxonomy ==
    AnsweredError =>
        IF outcome.raised = ValidationError
        THEN delivery.status = 400
        ELSE IF outcome.raised \in RuntimeErrors
        THEN /\ delivery.status = 503
             /\ delivery.detail = "Speech services are unavailable"
             /\ delivery.detail # outcome.raised
        ELSE /\ delivery.status = 500
             /\ delivery.detail = "Failed to process dialogue request."
             /\ delivery.detail # outcome.raised

\* the events after the three that precede the audio, the closing one left
\* out
AudioEvents ==
    LET rest == SubSeq(delivery.events, Len(HeadEvents) + 1,
                       Len(delivery.events))
    IN  IF rest # <<>> /\ rest[Len(rest)] = Event("done")
        THEN SubSeq(rest, 1, Len(rest) - 1) ELSE rest

\* C34: the event order of a streamed dialogue response.  The events sent
\* so far are the first ones of: metadata, transcript, assistant_text, then
\* one audio_chunk event per chunk the synthesis iterator yielded, in the
\* order it yielded them, then done.  done is sent at most once, nothing
\* follows it, and it has been sent exactly when the chunk sequence was
\* consumed to its end without error.
C34_StreamedEventOrder ==
    Streamed =>
        /\ \A i \in DOMAIN delivery.events :
              /\ i <= Len(HeadEvents) => delivery.events[i] = HeadEvents[i]
              /\ i > Len(HeadEvents) /\ i < Len(delivery.events) =>
                    delivery.events[i].event = "audio_chunk"
              /\ i > Len(HeadEvents) =>
                    delivery.events[i].event \in {"audio_chunk", "done"}
              /\ delivery.events[i] = Event("done") =>
                    i = Len(delivery.events)
        /\ Len(AudioEvents) = stream.delivered
        /\ \A i \in DOMAIN AudioEvents :
              /\ AudioEvents[i].event = "audio_chunk"
              /\ AudioEvents[i].chunk >= 1
              /\ i = 1 => AudioEvents[i].chunk = 1
              /\ i > 1 =>
                    \/ /\ AudioEvents[i].attempt = AudioEvents[i - 1].attempt
                       /\ AudioEvents[i].chunk = AudioEvents[i - 1].chunk + 1
                    \/ /\ AudioEvents[i].attempt > AudioEvents[i - 1].attempt
                       /\ AudioEvents[i].chunk = 1
        /\ stream.status # "unconsumed" => Len(delivery.events) >= Len(HeadEvents)
        /\ Event("done") \in Range(delivery.events) <=> stream.status = "done"

\* a response of two chunks was streamed to its end
C34_Witness ==
    /\ Streamed
    /\ stream.status = "done"
    /\ delivery.events = HeadEvents \o <<AudioChunk(1, 1), AudioChunk(1, 2),
                                         Event("done")>>

\* ---- C33
\* C33: on a socket endpoint the API-key check runs first, then the
\* rate-limit check, then accept.  The limiter is called (and a token can be
\* spent) only for a connection whose key check passed and which is not yet
\* accepted; a connection is accepted only after its key check passed and
\* its rate-limit check returned True; a connection whose key check closed
\* it leaves the buckets as they were; and a connection that was closed by
\* either check is never accepted.
C33_SocketAdmissionOrder ==
    [][/\ (calls' # calls \/ buckets' # buckets \/ waiting' # waiting)
            => /\ socket.pc = "limit"
               /\ socket.key.done /\ socket.key.passed
               /\ ~socket.accepted
       /\ (socket'.accepted /\ ~socket.accepted)
            => /\ socket'.n = socket.n
               /\ socket.key.done /\ socket.key.passed
               /\ RateChecked
               /\ last.resp.returned = "True"
               /\ socket.closes = <<>>
       /\ socket.key.closed
            => /\ buckets' = buckets
               /\ calls' = calls
               /\ rejections' = rejections
       /\ (socket.closes # <<>> /\ socket'.n = socket.n)
            => /\ ~socket'.accepted
               /\ socket'.pc = "closed"]_vars

\* a connection was accepted after an enabled key check and a token spent on
\* an enabled limiter, the connection before it having been turned away
C33_Witness ==
    /\ socket.accepted
    /\ socket.n >= 2
    /\ auth.enabled
    /\ limiter.configured /\ limiter.enabled
    /\ last.resp.acquire.called
    /\ rejections["api_key"] > 0

Admissions(key, a, b) ==
    Cardinality({i \in DOMAIN ledger.admitted[key] :
                    a <= ledger.admitted[key][i] /\ ledger.admitted[key][i] <= b})

\* C36: for every key and every interval a..b of the run, the number of
\* admissions of the key inside the interval is at most capacity +
\* (b - a) * refill_rate (in token units: limiter.one units a token),
\* also when the key's bucket was swept and created again inside it.
C36_RateBound ==
    \A key \in DOMAIN ledger.admitted :
        \A a \in 0..clock :
            \A b \in a..clock :
                Admissions(key, a, b) * limiter.one
                    <= limiter.capacity + (b - a) * limiter.refill_rate

\* a key that had been called before found its bucket swept, got a new one
\* and was admitted on it
C36_Witness ==
    /\ ledger.prior.called
    /\ ledger.before = NoBucket
    /\ ledger.result.allowed
    /\ Len(ledger.admitted[ledger.key]) >= 2

\* ---- C37
\* C37: a call on a key whose previous call was rejected with the hint
\* retry_after = r, made at least r seconds after that call with no call on
\* the key in between, is admitted.
C37_RetryHintSufficient ==
    (/\ ledger.prior.called
     /\ ~ledger.prior.result.allowed
     /\ (ledger.told[ledger.key].at - ledger.prior.at)
            * ledger.prior.result.retry_after.den
          >= ledger.prior.result.retry_after.num)
        => ledger.result.allowed

\* a rejected key came back exactly when the hint said, found its bucket
\* and was admitted
C37_Witness ==
    /\ ledger.prior.called
    /\ ~ledger.prior.result.allowed
    /\ ledger.prior.result.retry_after.num > 0
    /\ (ledger.told[ledger.key].at - ledger.prior.at)
           * ledger.prior.result.retry_after.den
         = ledger.prior.result.retry_after.num
    /\ ledger.before # NoBucket
    /\ ledger.result.allowed

\* ---- C38
\* C38: every call gets the same (allowed, retry_after) from the limiter
\* and from the same limiter with the sweep switched off, the buckets the
\* limiter still holds are those of the unswept map, and the bucket of the
\* key of a call is in the map when the call returns.
C38_EvictionTransparent ==
    /\ ledger.result = ledger.plain_result
    /\ \A key \in DOMAIN buckets :
           key \in DOMAIN ledger.plain /\ buckets[key] = ledger.plain[key]
    /\ ledger.key # "" => ledger.key \in DOMAIN buckets

\* a key's bucket was swept by the call of another key, and the key's next
\* call was answered on a new bucket
C38_Witness ==
    /\ ledger.prior.called
    /\ ledger.before = NoBucket
    /\ BucketsGet(ledger.plain, ledger.key).last_refill = clock
    /\ Cardinality(DOMAIN ledger.plain) >= 2

\* ---- C39
\* the "speech_dialogue" pipeline observations of the invocation
DialogueObservations ==
    {i \in DOMAIN observations :
        \E success \in BOOLEAN :
            observations[i] = PipelineRun("speech_dialogue", success)}

\* C39: an invocation that has ended, by returning, by raising or by being
\* cancelled while suspended in a backend call, has recorded exactly one
\* "speech_dialogue" pipeline observation.
C39_OneObservationPerInvocation ==
    dialogue.pc \in {"returned", "raised"}
        => Cardinality(DialogueObservations) = 1

\* ---- C40
\* C40: the audio a consumer of the streaming iterator has received when the
\* iteration ends is one complete backend response: its i-th chunk is the
\* i-th chunk of the attempt that ended, also when an earlier attempt broke
\* off after it had yielded chunks.
C40_NoDuplicatedAudio ==
    (Streamed /\ stream.status = "done") =>
        \A i \in DOMAIN AudioEvents :
            /\ AudioEvents[i].attempt = stream.attempt
            /\ AudioEvents[i].chunk = i

====
